---- MODULE Spec2Model ----
(***************************************************************************)
(* Stock Hunter Pro: the analysis pipeline.                                *)
(*   utils/minervini_criteria.py  MinerviniAnalyzer   (criteria evaluator) *)
(*   utils/rs_calculator.py       RSRatingCalculator  (RS rating, cache)   *)
(*   utils/data_fetcher.py        DataFetcher         (indicators)         *)
(*   app.py                       process_stocks_parallel, analyze_single  *)
(*                                                                         *)
(* Numbers: the prices of a price frame are whole numbers of its unit (a   *)
(* dollar, or a fraction of one); the values of an indicator snapshot are  *)
(* integers, money rounded to 2 decimals in                                *)
(* cents and percentages rounded to 1 decimal in tenths of a percent       *)
(* (30.0 -> 300).  Floating point is modelled by exact rationals.          *)
(***************************************************************************)
EXTENDS Integers, Sequences, FiniteSets, TLC

VARIABLES
    crit_pc,      \* criteria evaluator: "ready" | "done"
    crit_in,      \* the stock_data dict handed to analyze_with_rs_rating
    crit_rs,      \* the rs_rating argument
    crit_out,     \* the dict analyze_with_rs_rating returned
    rs_pc,        \* RS rating call: "ready" | "done" | "again"
    rs_hist,      \* stock_data['historical_data'] of the call
    rs_fetch,     \* what ticker.history("^GSPC") did during the call
    rs_out,       \* what calculate_rs_rating returned, and how
    rs_again,     \* what a second call with the same argument returned
    sp500_cache,     \* RSRatingCalculator.sp500_cache
    cache_timestamp, \* RSRatingCalculator.cache_timestamp
    now,             \* datetime.now(), in minutes
    ind_pc,       \* indicator engine: "ready" | "done"
    ind_in,       \* the frame as the provider returned it
    ind_hist,     \* the same frame object, as _calculate_indicators leaves it
    ind_out,      \* the dict _calculate_indicators returned
    batch_pc,     \* process_stocks_parallel: "submit" | "collect" | "returned"
    symbols,      \* its argument
    fut,          \* future_to_symbol: the future of each symbol, by position
    results,      \* its local list `results`
    th,           \* the threads inside _get_sp500_data: position and locals
    stamp_of,     \* the call that wrote cache_timestamp
    calls,        \* calls of _get_sp500_data begun so far
    fn_pc,        \* a call of one function on its own: "ready" | "done"
    fn_arg,       \* the function called and its arguments
    fn_out        \* what it returned

crit_vars == <<crit_pc, crit_in, crit_rs, crit_out>>
rs_vars == <<rs_pc, rs_hist, rs_fetch, rs_out, rs_again>>
cache_vars == <<sp500_cache, cache_timestamp, now>>
ind_vars == <<ind_pc, ind_in, ind_hist, ind_out>>
batch_vars == <<batch_pc, symbols, fut, results>>
thread_vars == <<th, stamp_of, calls>>
fn_vars == <<fn_pc, fn_arg, fn_out>>

vars == <<crit_pc, crit_in, crit_rs, crit_out, rs_pc, rs_hist, rs_fetch, rs_out, rs_again,
          sp500_cache, cache_timestamp, now, ind_pc, ind_in, ind_hist, ind_out,
          batch_pc, symbols, fut, results, th, stamp_of, calls,
          fn_pc, fn_arg, fn_out>>

(***************************************************************************)
(* Python values of a stock_data dict.  A key may be absent, hold a number *)
(* or hold an object that is no number (comparing it with a number raises  *)
(* TypeError; as a non-empty object it is truthy).                         *)
(***************************************************************************)
Num(n) == [k |-> "num", v |-> n]
Absent == [k |-> "absent", v |-> 0]
NonNum == [k |-> "obj", v |-> 0]
\* float('nan')
NotANumber == [k |-> "nan", v |-> 0]

\* dict.get(key, default)
Get(val, default) == IF val.k = "absent" THEN default ELSE val

\* bool(x) of a value: a number is truthy when non-zero, an object always
Truthy(x) == x.k \in {"obj", "nan"} \/ (x.k = "num" /\ x.v # 0)

\* abs()
Abs(n) == IF n < 0 THEN -n ELSE n
Max2(a, b) == IF a >= b THEN a ELSE b
Min2(a, b) == IF a <= b THEN a ELSE b

RECURSIVE CountPasses(_)
\* sum(c['passes'] for c in criteria)
CountPasses(cs) ==
    IF cs = <<>> THEN 0
    ELSE (IF Head(cs).passes THEN 1 ELSE 0) + CountPasses(Tail(cs))

\* all(c['passes'] for c in criteria)
AllPasses(cs) == \A i \in 1..Len(cs) : cs[i].passes

RECURSIVE FailReasonsNewestFirst(_)
\* the reasons of the criteria that do not pass, each put in front of the list
FailReasonsNewestFirst(cs) ==
    IF cs = <<>> THEN <<>>
    ELSE FailReasonsNewestFirst(Tail(cs))
         \o (IF Head(cs).passes THEN <<>> ELSE <<Head(cs).reason>>)

RECURSIVE FailReasonsOf(_)
\* the reasons appended, in order, for the criteria that do not pass
FailReasonsOf(cs) ==
    IF cs = <<>> THEN <<>>
    ELSE (IF Head(cs).passes THEN <<>> ELSE <<Head(cs).reason>>)
         \o FailReasonsOf(Tail(cs))

(***************************************************************************)
(* The seven criteria (minervini_criteria.py 145-253, 302-313).  A reason  *)
(* is the message template; the formatted numbers are left out of it.      *)
(***************************************************************************)
THRESH_LOW == 300     \* 30.0 percent, in tenths
THRESH_HIGH == 250    \* 25.0 percent, in tenths
THRESH_RS == 70

_check_price_above_mas(price, ma_150, ma_200) ==
    LET above_150 == price > ma_150
        above_200 == price > ma_200
        passes == above_150 /\ above_200
    IN [name |-> "price_above_mas", passes |-> passes,
        reason |-> IF passes THEN ""
                   ELSE IF ~above_150 /\ ~above_200
                        THEN "Price below both 150MA ($X) & 200MA ($Y)"
                   ELSE IF ~above_150 THEN "Price below 150MA ($X)"
                   ELSE "Price below 200MA ($Y)"]

_check_ma_150_above_200(ma_150, ma_200) ==
    LET passes == ma_150 > ma_200
    IN [name |-> "ma_150_above_200", passes |-> passes,
        reason |-> IF passes THEN "" ELSE "150MA ($X) below 200MA ($Y)"]

_check_ma_200_trending_up(ma_200_trending_up) ==
    LET passes == ma_200_trending_up
    IN [name |-> "ma_200_trending_up", passes |-> passes,
        reason |-> IF passes THEN "" ELSE "200MA not trending up"]

_check_ma_50_above_others(ma_50, ma_150, ma_200) ==
    LET above_150 == ma_50 > ma_150
        above_200 == ma_50 > ma_200
        passes == above_150 /\ above_200
    IN [name |-> "ma_50_above_others", passes |-> passes,
        reason |-> IF passes THEN ""
                   ELSE IF ~above_150 /\ ~above_200
                        THEN "50MA below both 150MA & 200MA"
                   ELSE IF ~above_150 THEN "50MA ($X) below 150MA ($Y)"
                   ELSE "50MA ($X) below 200MA ($Y)"]

\* _check_above_52w_low with the boundary excluded (strict comparison)
CheckAbove52wLowStrict(from_low_pct) ==
    LET passes == from_low_pct > THRESH_LOW
    IN [name |-> "above_52w_low", passes |-> passes,
        reason |-> IF passes THEN "" ELSE "Only X% above 52W low (need >=30%)"]

_check_above_52w_low(from_low_pct) ==
    LET passes == from_low_pct >= THRESH_LOW
    IN [name |-> "above_52w_low", passes |-> passes,
        reason |-> IF passes THEN "" ELSE "Only X% above 52W low (need >=30%)"]

_check_near_52w_high(from_high_pct) ==
    LET passes == Abs(from_high_pct) <= THRESH_HIGH
    IN [name |-> "near_52w_high", passes |-> passes,
        reason |-> IF passes THEN "" ELSE "X% below 52W high (need <=25%)"]

_check_rs_rating_strong(rs_rating) ==
    LET passes == rs_rating >= THRESH_RS
    IN [name |-> "rs_rating_strong", passes |-> passes,
        reason |-> IF passes THEN "" ELSE "RS Rating X below 70"]

\* _generate_summary_with_rs: the message, with the two numbers it prints
_generate_summary_with_rs(criteria_results, passes_all) ==
    IF passes_all
    THEN [text |-> "All Minervini criteria passed - Perfect trend template",
          num |-> 0, den |-> 0]
    ELSE [text |-> "X/Y criteria passed",
          num |-> CountPasses(criteria_results), den |-> Len(criteria_results)]

(***************************************************************************)
(* analyze_stock (minervini_criteria.py 40-143).  The result records the   *)
(* dict it returns: `details` is the dict of criterion results in          *)
(* insertion order.                                                        *)
(***************************************************************************)
\* a comparison or a format of the six compared values raises when one of
\* them is no number (lines 80-113 run inside the try of line 50)
RulesRaise(sd) ==
    \E f \in {"price", "ma_50", "ma_150", "ma_200", "from_low_pct", "from_high_pct"} :
        Get(sd[f], Num(0)).k = "obj"

\* line 59: stock_data.get('ma_200_trending_up', False)
TrendFlag(sd) == sd.ma_200_trending_up = "true"

analyze_stock(sd) ==
    LET price == Get(sd.price, Num(0))
        ma_50 == Get(sd.ma_50, Num(0))
        ma_150 == Get(sd.ma_150, Num(0))
        ma_200 == Get(sd.ma_200, Num(0))
        week_52_high == Get(sd.week_52_high, Num(0))
        week_52_low == Get(sd.week_52_low, Num(0))
        from_low_pct == Get(sd.from_low_pct, Num(0))
        from_high_pct == Get(sd.from_high_pct, Num(0))
        technical == << _check_price_above_mas(price.v, ma_150.v, ma_200.v),
                        _check_ma_150_above_200(ma_150.v, ma_200.v),
                        _check_ma_200_trending_up(TrendFlag(sd)),
                        _check_ma_50_above_others(ma_50.v, ma_150.v, ma_200.v),
                        _check_above_52w_low(from_low_pct.v),
                        _check_near_52w_high(from_high_pct.v) >>
    IN IF ~(\A x \in {price, ma_50, ma_150, ma_200, week_52_high, week_52_low} : Truthy(x))
       THEN \* lines 66-73
            [passed |-> FALSE, fail_reasons |-> <<"Insufficient data for analysis">>,
             score |-> 0, max_score |-> 7, details |-> <<>>, branch |-> "insufficient"]
       ELSE IF RulesRaise(sd)
       THEN \* lines 134-143
            [passed |-> FALSE, fail_reasons |-> <<"Analysis error: E">>,
             score |-> 0, max_score |-> 6, details |-> <<>>, branch |-> "error"]
       ELSE \* lines 75-132
            [passed |-> AllPasses(technical), fail_reasons |-> FailReasonsOf(technical),
             score |-> CountPasses(technical), max_score |-> 6,
             details |-> technical, branch |-> "rules"]

(***************************************************************************)
(* analyze_with_rs_rating (minervini_criteria.py 265-300)                  *)
(***************************************************************************)
analyze_with_rs_rating(sd, rs_rating) ==
    LET base_analysis == analyze_stock(sd)
        rs_criterion == _check_rs_rating_strong(rs_rating)
        all_criteria == Append(base_analysis.details, rs_criterion)
        passes_all_including_rs == AllPasses(all_criteria)
        total_score == CountPasses(all_criteria)
    IN [passed |-> passes_all_including_rs,
        fail_reasons |-> IF rs_criterion.passes THEN base_analysis.fail_reasons
                         ELSE Append(base_analysis.fail_reasons, rs_criterion.reason),
        score |-> total_score,
        max_score |-> 7,
        rs_rating |-> rs_rating,
        details |-> all_criteria,
        summary |-> _generate_summary_with_rs(all_criteria, passes_all_including_rs),
        branch |-> base_analysis.branch]

(***************************************************************************)
(* Floating point values of the RS computation.  A value is a rational     *)
(* n/d (d > 0, exact), +inf, -inf or nan, as numpy produces them: x/0 is   *)
(* +-inf, 0/0 and inf-inf are nan, and nothing raises.                     *)
(***************************************************************************)
RECURSIVE GCD(_, _)
GCD(a, b) == IF b = 0 THEN a ELSE GCD(b, a % b)

Fin(n, d) ==
    LET g == GCD(Abs(n), d)
    IN [t |-> "fin", n |-> n \div g, d |-> d \div g]
PInf == [t |-> "pinf", n |-> 0, d |-> 1]
NInf == [t |-> "ninf", n |-> 0, d |-> 1]
NaN == [t |-> "nan", n |-> 0, d |-> 1]

XNeg(x) ==
    CASE x.t = "fin" -> Fin(-x.n, x.d)
      [] x.t = "pinf" -> NInf
      [] x.t = "ninf" -> PInf
      [] OTHER -> NaN

XAdd(x, y) ==
    CASE x.t = "nan" \/ y.t = "nan" -> NaN
      [] x.t = "fin" /\ y.t = "fin" -> Fin(x.n * y.d + y.n * x.d, x.d * y.d)
      [] x.t = "fin" -> y
      [] y.t = "fin" -> x
      [] x.t = y.t -> x
      [] OTHER -> NaN

XSub(x, y) == XAdd(x, XNeg(y))

\* x * (wn/wd) for a finite weight wn/wd > 0
XScale(x, wn, wd) == IF x.t = "fin" THEN Fin(x.n * wn, x.d * wd) ELSE x

\* x >= c and x < c for an integer c; every comparison with nan is false
XGe(x, c) == (x.t = "pinf") \/ (x.t = "fin" /\ x.n >= c * x.d)
XLt(x, c) == (x.t = "ninf") \/ (x.t = "fin" /\ x.n < c * x.d)

\* abs(x)
XAbs(x) ==
    CASE x.t = "fin" -> Fin(Abs(x.n), x.d)
      [] x.t = "nan" -> NaN
      [] OTHER -> PInf

\* Python's min(x, c): c when c < x, else x (so min(nan, c) is nan)
XMinInt(x, c) ==
    IF x.t = "pinf" \/ (x.t = "fin" /\ c * x.d < x.n) THEN Fin(c, 1) ELSE x

\* ((end - start) / start) * 100 on prices
PctReturn(end, start) ==
    IF start # 0 THEN Fin((end - start) * 100, start)
    ELSE IF end > start THEN PInf
    ELSE IF end < start THEN NInf
    ELSE NaN

\* int(x) of a finite value: truncation toward zero
Trunc(x) == IF x.n >= 0 THEN x.n \div x.d ELSE -((-x.n) \div x.d)

(***************************************************************************)
(* Price frames.  A frame is what ticker.history returns: a DataFrame      *)
(* indexed by trading day (an integer), one bar per day first..last.       *)
(*   kind: "none" (None) | "empty" | "frame"                               *)
(*   cols: "ok" | "no_close" (no Close column) | "non_numeric" (strings)   *)
(*   Close on day d: the level lv of the day's block (blocks of the        *)
(*     lookback windows' length, counted back from LastDay) plus `up` per  *)
(*     day since the first; NaN on the day `hole` (0: no such day)         *)
(*   High = Close + spread, Low = Close - spread (not below 0), Volume vol *)
(*   unit: the prices are in 1/unit dollars (1: whole dollars)              *)
(*   added: the columns written into the frame after the provider made it  *)
(***************************************************************************)
PERIOD_1 == 63
PERIOD_2 == 126
PERIOD_3 == 189
PERIOD_4 == 252
periods == <<PERIOD_1, PERIOD_2, PERIOD_3, PERIOD_4>>
\* weights 0.4, 0.2, 0.2, 0.2 as fractions of WEIGHT_DEN
WEIGHT_DEN == 10
weights == <<4, 2, 2, 2>>

Slack == 2
LastDay == PERIOD_4 + Slack

Block(d) ==
    LET o == LastDay - d
    IN IF o < PERIOD_1 - 1 THEN 1
       ELSE IF o < PERIOD_2 - 1 THEN 2
       ELSE IF o < PERIOD_3 - 1 THEN 3
       ELSE IF o < PERIOD_4 - 1 THEN 4
       ELSE 5

NoFrame == [kind |-> "none", id |-> 0, cols |-> "ok", first |-> 1, last |-> 0,
            hole |-> 0, lv |-> <<0, 0, 0, 0, 0>>, up |-> 0, spread |-> 0, vol |-> 0,
            unit |-> 1, added |-> {}]
EmptyFrame == [NoFrame EXCEPT !.kind = "empty"]
Bars(cols, first, last, hole, lv, up, spread, vol) ==
    [kind |-> "frame", id |-> 0, cols |-> cols, first |-> first, last |-> last,
     hole |-> hole, lv |-> lv, up |-> up, spread |-> spread, vol |-> vol,
     unit |-> 1, added |-> {}]
Frame(cols, first, last, hole, lv) == Bars(cols, first, last, hole, lv, 0, 0, 1)

\* frame.index
Dates(fr) == IF fr.kind = "frame" THEN fr.first..fr.last ELSE {}
\* hist.empty
IsEmpty(fr) == Dates(fr) = {}
\* frame['Close'][d]; the Close of day fr.hole is NaN
Close(fr, d) == fr.lv[Block(d)] + fr.up * (d - fr.first)
High(fr, d) == Close(fr, d) + fr.spread
Low(fr, d) == Max2(Close(fr, d) - fr.spread, 0)
\* len(hist)
NBars(fr) == IF fr.kind = "frame" /\ fr.last >= fr.first THEN fr.last - fr.first + 1 ELSE 0

\* a pd.Series: its dtype, its length and its values by position 1..len
EmptySeries == [dtype |-> "float", len |-> 0, vals |-> <<>>]

(***************************************************************************)
(* _align_data (rs_calculator.py 138-170): the two aligned series, and     *)
(* whether the except branch produced them.  The days of a frame are an    *)
(* interval, so the common days are the interval lo..hi without the days   *)
(* on which either Close is NaN (reindex, dropna, intersection), ascending *)
(* (sort_index).                                                           *)
(***************************************************************************)
_align_data(stock_data, sp500_data) ==
    LET lo == Max2(stock_data.first, sp500_data.first)
        hi == Min2(stock_data.last, sp500_data.last)
        common_dates == Dates(stock_data) \cap Dates(sp500_data)
        dropped == {stock_data.hole, sp500_data.hole} \cap (lo..hi)
        Kept(d) == (d - lo + 1) - Cardinality({h \in dropped : h <= d})
        \* the i-th of the final dates in ascending order
        DayAt(i) == CHOOSE d \in (lo + i - 1)..(lo + i - 1 + Cardinality(dropped)) :
                        d \notin dropped /\ Kept(d) = i
        n == (hi - lo + 1) - Cardinality(dropped)
    IN IF stock_data.cols = "no_close" \/ sp500_data.cols = "no_close"
       THEN \* KeyError, lines 168-170
            <<EmptySeries, EmptySeries, TRUE>>
       ELSE IF common_dates = {}
       THEN <<EmptySeries, EmptySeries, FALSE>>
       ELSE << [dtype |-> IF stock_data.cols = "non_numeric" THEN "object" ELSE "float",
                len |-> n,
                vals |-> [i \in 1..n |-> Close(stock_data, DayAt(i))]],
               [dtype |-> IF sp500_data.cols = "non_numeric" THEN "object" ELSE "float",
                len |-> n,
                vals |-> [i \in 1..n |-> Close(sp500_data, DayAt(i))]],
               FALSE >>

(***************************************************************************)
(* _calculate_period_performance (rs_calculator.py 172-209): the relative  *)
(* performance, or None ("some" false); `raised` when the except branch    *)
(* produced the None                                                       *)
(***************************************************************************)
NoPerformance == [some |-> FALSE, val |-> NaN, raised |-> FALSE]

\* the stock's own return, the benchmark's left out
PeriodPerformanceAbsolute(stock_prices, sp500_prices, period) ==
    LET n == stock_prices.len
    IN IF n < period THEN NoPerformance
       ELSE IF stock_prices.dtype = "object" \/ sp500_prices.dtype = "object"
       THEN [NoPerformance EXCEPT !.raised = TRUE]
       ELSE [some |-> TRUE, raised |-> FALSE,
             val |-> PctReturn(stock_prices.vals[n], stock_prices.vals[n - period + 1])]

_calculate_period_performance(stock_prices, sp500_prices, period) ==
    LET n == stock_prices.len
        end_price_stock == stock_prices.vals[n]
        start_price_stock == stock_prices.vals[n - period + 1]
        end_price_sp500 == sp500_prices.vals[n]
        start_price_sp500 == sp500_prices.vals[n - period + 1]
        stock_return == PctReturn(end_price_stock, start_price_stock)
        sp500_return == PctReturn(end_price_sp500, start_price_sp500)
    IN IF n < period THEN NoPerformance
       ELSE IF stock_prices.dtype = "object" \/ sp500_prices.dtype = "object"
       THEN \* TypeError on str - str, lines 207-209
            [NoPerformance EXCEPT !.raised = TRUE]
       ELSE [some |-> TRUE, val |-> XSub(stock_return, sp500_return), raised |-> FALSE]

(***************************************************************************)
(* _convert_to_rs_scale (rs_calculator.py 211-253)                         *)
(***************************************************************************)
RATING_MIN == 1
RATING_MAX == 99

Clamp(rating) ==
    IF rating > RATING_MAX THEN RATING_MAX
    ELSE IF rating < RATING_MIN THEN RATING_MIN ELSE rating

\* the conversion with the caps of lines 225 and 243 and the clamp of line 247
\* left out
ConvertWithoutBounds(rp) ==
    IF XGe(rp, 50) THEN 90 + Trunc(XScale(XSub(rp, Fin(50, 1)), 9, 50))
    ELSE IF XGe(rp, 20) THEN 80 + Trunc(XScale(XSub(rp, Fin(20, 1)), 9, 30))
    ELSE IF XGe(rp, 5) THEN 70 + Trunc(XScale(XSub(rp, Fin(5, 1)), 9, 15))
    ELSE IF XGe(rp, -5) THEN 50 + Trunc(XScale(XAdd(rp, Fin(5, 1)), 19, 10))
    ELSE 49 - Trunc(XScale(XAbs(XAdd(rp, Fin(5, 1))), 48, 45))

\* the conversion with the breakpoint of line 228 at 25 instead of 20
ConvertShiftedBreakpoint(rp) ==
    IF XGe(rp, 50) THEN
        Clamp(90 + Trunc(XScale(XMinInt(XSub(rp, Fin(50, 1)), 50), 9, 50)))
    ELSE IF XGe(rp, 25) THEN
        Clamp(80 + Trunc(XScale(XSub(rp, Fin(20, 1)), 9, 30)))
    ELSE IF XGe(rp, 5) THEN
        Clamp(70 + Trunc(XScale(XSub(rp, Fin(5, 1)), 9, 15)))
    ELSE IF XGe(rp, -5) THEN
        Clamp(50 + Trunc(XScale(XAdd(rp, Fin(5, 1)), 19, 10)))
    ELSE IF rp.t = "nan" THEN 1
    ELSE Clamp(49 - Trunc(XScale(XMinInt(XAbs(XAdd(rp, Fin(5, 1))), 45), 48, 45)))

\* the conversion with the lowest band counted upwards from 1 as the
\* performance falls
ConvertRisingTail(rp) ==
    IF XGe(rp, 50) THEN
        Clamp(90 + Trunc(XScale(XMinInt(XSub(rp, Fin(50, 1)), 50), 9, 50)))
    ELSE IF XGe(rp, 20) THEN
        Clamp(80 + Trunc(XScale(XSub(rp, Fin(20, 1)), 9, 30)))
    ELSE IF XGe(rp, 5) THEN
        Clamp(70 + Trunc(XScale(XSub(rp, Fin(5, 1)), 9, 15)))
    ELSE IF XGe(rp, -5) THEN
        Clamp(50 + Trunc(XScale(XAdd(rp, Fin(5, 1)), 19, 10)))
    ELSE IF rp.t = "nan" THEN 1
    ELSE Clamp(1 + Trunc(XScale(XMinInt(XAbs(XAdd(rp, Fin(5, 1))), 45), 48, 45)))

\* int(nan) raises ValueError: nan fails every comparison and reaches line 244
ConvertRaises(rp) == rp.t = "nan"

_convert_to_rs_scale(rp) ==
    IF XGe(rp, 50) THEN
        LET excess == XMinInt(XSub(rp, Fin(50, 1)), 50)
        IN Clamp(90 + Trunc(XScale(excess, 9, 50)))
    ELSE IF XGe(rp, 20) THEN
        Clamp(80 + Trunc(XScale(XSub(rp, Fin(20, 1)), 9, 30)))
    ELSE IF XGe(rp, 5) THEN
        Clamp(70 + Trunc(XScale(XSub(rp, Fin(5, 1)), 9, 15)))
    ELSE IF XGe(rp, -5) THEN
        Clamp(50 + Trunc(XScale(XAdd(rp, Fin(5, 1)), 19, 10)))
    ELSE
        LET negative_excess == XMinInt(XAbs(XAdd(rp, Fin(5, 1))), 45)
        IN IF ConvertRaises(rp)
           THEN \* lines 251-253
                1
           ELSE Clamp(49 - Trunc(XScale(negative_excess, 48, 45)))

(***************************************************************************)
(* _get_sp500_data (rs_calculator.py 100-136), run without interruption.   *)
(* fetch: what ticker.history does if it is called: "raise", or the frame  *)
(* it returns (None, empty, or a frame).                                   *)
(***************************************************************************)
RaiseFetch == [NoFrame EXCEPT !.kind = "raise"]
\* a historical_data value that is no DataFrame
BogusFrame == [NoFrame EXCEPT !.kind = "bogus"]
NoneTs == -1
CACHE_TTL == 60

\* the test of lines 104-106 with an entry of exactly one hour still fresh
CacheFreshInclusive(cache, ts, t) ==
    cache.kind # "none" /\ ts # NoneTs /\ t - ts <= CACHE_TTL

CacheFresh(cache, ts, t) ==
    cache.kind # "none" /\ ts # NoneTs /\ t - ts < CACHE_TTL

_get_sp500_data(cache, ts, t, fetch) ==
    IF CacheFresh(cache, ts, t)
    THEN [ret |-> cache, cache |-> cache, ts |-> ts, called |-> FALSE, raised |-> FALSE]
    ELSE IF fetch.kind = "raise"
    THEN \* lines 134-136
         [ret |-> NoFrame, cache |-> cache, ts |-> ts, called |-> TRUE, raised |-> TRUE]
    ELSE IF fetch.kind # "none" /\ ~IsEmpty(fetch)
    THEN [ret |-> fetch, cache |-> fetch, ts |-> t, called |-> TRUE, raised |-> FALSE]
    ELSE [ret |-> fetch, cache |-> cache, ts |-> ts, called |-> TRUE, raised |-> FALSE]

(***************************************************************************)
(* calculate_rs_rating (rs_calculator.py 38-98), the call of               *)
(* _get_sp500_data included.  `path` names the return statement taken,     *)
(* `bench` is the local sp500_data.                                        *)
(***************************************************************************)
RECURSIVE XSum(_)
\* sum(period_performances)
XSum(ps) == IF ps = <<>> THEN Fin(0, 1) ELSE XAdd(Head(ps), XSum(Tail(ps)))

\* lines 73-82: the four period performances
Performances(aligned) ==
    [i \in 1..Len(periods) |->
        _calculate_period_performance(aligned[1], aligned[2], periods[i])]

\* a window without a performance re-weighted away: the weights of the
\* windows that have one scaled up to sum to 1
TotalReweighted(perfs) ==
    LET have == {i \in 1..Len(periods) : perfs[i].some}
        RECURSIVE SumW(_)
        SumW(S) == IF S = {} THEN 0
                   ELSE LET i == CHOOSE i \in S : TRUE IN weights[i] + SumW(S \ {i})
        wsum == SumW(have)
        RECURSIVE SumP(_)
        SumP(S) == IF S = {} THEN Fin(0, 1)
                   ELSE LET i == CHOOSE i \in S : TRUE
                        IN XAdd(XScale(perfs[i].val, weights[i], wsum), SumP(S \ {i}))
    IN SumP(have)

\* performance * weight, or 0.0 for None
Contribution(performance, i) ==
    IF performance.some THEN XScale(performance.val, weights[i], WEIGHT_DEN)
    ELSE Fin(0, 1)

TotalRelativePerformance(perfs) ==
    XSum([i \in 1..Len(periods) |-> Contribution(perfs[i], i)])

Rated(got, aligned, perfs, total) ==
    [rating |-> _convert_to_rs_scale(total), path |-> "computed",
     total |-> total, n |-> aligned[1].len,
     errors |-> (IF got.raised THEN {"benchmark"} ELSE {})
                \cup (IF aligned[3] THEN {"align"} ELSE {})
                \cup (IF \E i \in 1..Len(periods) : perfs[i].raised THEN {"period"} ELSE {})
                \cup (IF ConvertRaises(total) THEN {"convert"} ELSE {})]

RatedPerfs(got, aligned, perfs) ==
    Rated(got, aligned, perfs, TotalRelativePerformance(perfs))

\* the neutral rating also for exactly 63 aligned days
RatedAlignedOffByOne(got, aligned) ==
    IF aligned[1].len <= PERIOD_1
    THEN [rating |-> 50, path |-> "insufficient", total |-> NaN, n |-> aligned[1].len,
          errors |-> {}]
    ELSE RatedPerfs(got, aligned, Performances(aligned))

RatedAligned(got, aligned) ==
    IF aligned[1].len < PERIOD_1
    THEN [rating |-> 50, path |-> "insufficient", total |-> NaN, n |-> aligned[1].len,
          errors |-> (IF got.raised THEN {"benchmark"} ELSE {})
                     \cup (IF aligned[3] THEN {"align"} ELSE {})]
    ELSE RatedPerfs(got, aligned, Performances(aligned))

\* `errors`: the steps whose except branch ran during the call
calculate_rs_rating(hist_data, cache, ts, t, fetch) ==
    LET got == _get_sp500_data(cache, ts, t, fetch)
        sp500_data == got.ret
        \* total and n: total_relative_performance and len(aligned_stock),
        \* where the call got that far
        same == [cache |-> cache, ts |-> ts, called |-> FALSE, bench |-> NoFrame,
                 total |-> NaN, n |-> 0]
        after == [cache |-> got.cache, ts |-> got.ts, called |-> got.called,
                  bench |-> sp500_data, total |-> NaN, n |-> 0]
    IN IF hist_data.kind = "bogus"
       THEN \* hist_data.empty raises AttributeError, lines 96-98
            [rating |-> 1, path |-> "error", errors |-> {"outer"}] @@ same
       ELSE IF hist_data.kind = "none" \/ IsEmpty(hist_data)
       THEN [rating |-> 1, path |-> "no_history", errors |-> {}] @@ same
       ELSE IF sp500_data.kind = "none"
       THEN [rating |-> 1, path |-> "no_benchmark",
             errors |-> IF got.raised THEN {"benchmark"} ELSE {}] @@ after
       ELSE RatedAligned(got, _align_data(hist_data, sp500_data)) @@ after

(***************************************************************************)
(* _calculate_indicators and _is_trending_up (data_fetcher.py 119-218).    *)
(* Bars are addressed by position 1..len(hist); the frames handed in have  *)
(* a number as their last Close.                                           *)
(***************************************************************************)
MIN_BARS == 50
MA_50_WINDOW == 50
MA_50_MIN == 25
MA_150_WINDOW == 150
MA_150_MIN == 75
MA_200_WINDOW == 200
MA_200_MIN == 100
WEEK_52 == 252
TREND_LOOKBACK == 20

DayOf(fr, p) == fr.first + p - 1

RECURSIVE SumClose(_, _, _)
\* the sum of the Close values at positions i..j that are not NaN
SumClose(fr, i, j) ==
    IF i > j THEN 0
    ELSE IF i = j THEN (IF DayOf(fr, i) = fr.hole THEN 0 ELSE Close(fr, DayOf(fr, i)))
    ELSE LET m == (i + j) \div 2
         IN SumClose(fr, i, m) + SumClose(fr, m + 1, j)

\* hist['Close'].rolling(window, min_periods).mean() at position p
RollingMean(fr, p, window, min_periods) ==
    LET lo == Max2(1, p - window + 1)
        holes == IF fr.hole \in DayOf(fr, lo)..DayOf(fr, p) THEN 1 ELSE 0
        count == (p - lo + 1) - holes
    IN IF count < min_periods THEN NaN ELSE Fin(SumClose(fr, lo, p), count * fr.unit)

RECURSIVE MaxHigh(_, _, _)
MaxHigh(fr, i, j) ==
    IF i = j THEN High(fr, DayOf(fr, i))
    ELSE LET m == (i + j) \div 2
         IN Max2(MaxHigh(fr, i, m), MaxHigh(fr, m + 1, j))

RECURSIVE MinLow(_, _, _)
MinLow(fr, i, j) ==
    IF i = j THEN Low(fr, DayOf(fr, i))
    ELSE LET m == (i + j) \div 2
         IN Min2(MinLow(fr, i, m), MinLow(fr, m + 1, j))

\* round(): the nearest integer to a/b (b > 0), a tie to the even one
RoundDiv(a, b) ==
    LET q == a \div b
        r == a - q * b
    IN IF 2 * r < b THEN q
       ELSE IF 2 * r > b THEN q + 1
       ELSE IF q % 2 = 0 THEN q ELSE q + 1

\* x > y for two finite values
XGt(x, y) == x.n * y.d > y.n * x.d

\* _is_trending_up comparing with the value 21 bars earlier
TrendingUpLookback21(fr, window, min_periods) ==
    LET n == NBars(fr)
        recent == RollingMean(fr, n, window, min_periods)
        older == RollingMean(fr, n - TREND_LOOKBACK - 1, window, min_periods)
    IN IF n < TREND_LOOKBACK + 2 THEN FALSE
       ELSE IF recent.t = "nan" \/ older.t = "nan" THEN FALSE
       ELSE XGt(recent, older)

\* _is_trending_up(hist['MA_w']) with lookback = 20 (lines 203-218)
_is_trending_up(fr, window, min_periods) ==
    LET n == NBars(fr)
        recent == RollingMean(fr, n, window, min_periods)
        older == RollingMean(fr, n - TREND_LOOKBACK, window, min_periods)
    IN IF n < TREND_LOOKBACK + 1 THEN FALSE
       ELSE IF recent.t = "nan" \/ older.t = "nan" THEN FALSE
       ELSE XGt(recent, older)

Flag(b) == IF b THEN "true" ELSE "false"

SnapshotKeys ==
    {"symbol", "price", "ma_50", "ma_150", "ma_200", "week_52_high", "week_52_low",
     "from_high_pct", "from_low_pct", "ma_50_trending_up", "ma_150_trending_up",
     "ma_200_trending_up", "price_vs_ma_50", "price_vs_ma_150", "price_vs_ma_200",
     "volume", "avg_volume", "volume_ratio", "historical_data"}

\* the dict {'symbol': symbol, 'error': msg}
ErrorRecord(symbol, msg) ==
    [keys |-> {"symbol", "error"}, symbol |-> symbol, error |-> msg,
     price |-> Absent, ma_50 |-> Absent, ma_150 |-> Absent, ma_200 |-> Absent,
     week_52_high |-> Absent, week_52_low |-> Absent,
     from_high_pct |-> Absent, from_low_pct |-> Absent,
     ma_50_trending_up |-> "absent", ma_150_trending_up |-> "absent",
     ma_200_trending_up |-> "absent",
     price_vs_ma_50 |-> Absent, price_vs_ma_150 |-> Absent, price_vs_ma_200 |-> Absent,
     volume |-> Absent, avg_volume |-> Absent, volume_ratio |-> Absent,
     historical_data |-> NoFrame]

\* the MA value at the last bar, with the fallback of lines 148-150
LastMA(fr, window, min_periods, current_price) ==
    LET m == RollingMean(fr, NBars(fr), window, min_periods)
    IN IF m.t = "nan" THEN current_price ELSE m

\* lines 173-175: round(((current_price - ma) / ma) * 100, 1) if ma > 0 else 0
PriceVsMA(current_price, ma) ==
    IF ma.t = "fin" /\ ma.n > 0
    THEN IF current_price.t = "nan" THEN NotANumber
         ELSE Num(RoundDiv(1000 * (current_price.n * ma.d - ma.n), ma.n))
    ELSE Num(0)

\* round(x, 2) of a float, in cents
Cents(x) == IF x.t = "nan" THEN NotANumber ELSE Num(RoundDiv(100 * x.n, x.d))

\* the result dict, and the frame as the call leaves it
_calculate_indicators(hist, symbol) ==
    LET n == NBars(hist)
        \* line 128: float(hist['Close'].iloc[-1]), nan when that Close is NaN
        current_price == IF hist.hole = hist.last THEN NaN
                         ELSE Fin(Close(hist, hist.last), hist.unit)
        \* lines 132-134 write three columns into the caller's frame
        with_mas == [hist EXCEPT !.added = @ \cup {"MA_50", "MA_150", "MA_200"}]
        lookback_days == Min2(WEEK_52, n)
        week_52_high == MaxHigh(hist, n - lookback_days + 1, n)
        week_52_low == MinLow(hist, n - lookback_days + 1, n)
        ma_50 == LastMA(hist, MA_50_WINDOW, MA_50_MIN, current_price)
        ma_150 == LastMA(hist, MA_150_WINDOW, MA_150_MIN, current_price)
        ma_200 == LastMA(hist, MA_200_WINDOW, MA_200_MIN, current_price)
        \* lines 163-165: the volume is the same on every bar
        avg_volume == hist.vol
        recent_volume == hist.vol
    IN IF n < MIN_BARS
       THEN [result |-> ErrorRecord(symbol, "Insufficient data"), hist |-> hist]
       ELSE IF hist.cols # "ok"
       THEN \* line 128 raises KeyError or ValueError, lines 199-201
            [result |-> ErrorRecord(symbol, "str(e)"), hist |-> hist]
       ELSE IF week_52_high = 0 \/ week_52_low = 0
       THEN \* lines 158-159 raise ZeroDivisionError, lines 199-201
            [result |-> ErrorRecord(symbol, "str(e)"), hist |-> with_mas]
       ELSE [result |->
               [keys |-> SnapshotKeys, symbol |-> symbol, error |-> "",
                price |-> Cents(current_price),
                ma_50 |-> Cents(ma_50),
                ma_150 |-> Cents(ma_150),
                ma_200 |-> Cents(ma_200),
                week_52_high |-> Cents(Fin(week_52_high, hist.unit)),
                week_52_low |-> Cents(Fin(week_52_low, hist.unit)),
                from_high_pct |->
                    IF current_price.t = "nan" THEN NotANumber
                    ELSE Num(RoundDiv(1000 * (Close(hist, hist.last) - week_52_high),
                                      week_52_high)),
                from_low_pct |->
                    IF current_price.t = "nan" THEN NotANumber
                    ELSE Num(RoundDiv(1000 * (Close(hist, hist.last) - week_52_low),
                                      week_52_low)),
                ma_50_trending_up |-> Flag(_is_trending_up(hist, MA_50_WINDOW, MA_50_MIN)),
                ma_150_trending_up |-> Flag(_is_trending_up(hist, MA_150_WINDOW, MA_150_MIN)),
                ma_200_trending_up |-> Flag(_is_trending_up(hist, MA_200_WINDOW, MA_200_MIN)),
                price_vs_ma_50 |-> PriceVsMA(current_price, ma_50),
                price_vs_ma_150 |-> PriceVsMA(current_price, ma_150),
                price_vs_ma_200 |-> PriceVsMA(current_price, ma_200),
                volume |-> Num(recent_volume),
                avg_volume |-> Num(avg_volume),
                volume_ratio |-> Num(IF avg_volume > 0
                                     THEN RoundDiv(100 * recent_volume, avg_volume)
                                     ELSE 100),
                historical_data |-> with_mas],
             hist |-> with_mas]

(***************************************************************************)
(* fetch_stock_data (data_fetcher.py 41-117).  `answers` is what           *)
(* ticker.history gives on the first, second and third attempt.            *)
(***************************************************************************)
MAX_RETRIES == 3

\* self.symbol_mapping (lines 27-32)
symbol_mapping ==
    [s \in {"BRK.A", "BRK.B", "BF.B", "SQ"} |->
        CASE s = "BRK.A" -> "BRK-A"
          [] s = "BRK.B" -> "BRK-B"
          [] s = "BF.B" -> "BF-B"
          [] s = "SQ" -> "BLOCK"]

\* _clean_symbol without the table: the symbol as it came
CleanSymbolUnmapped(symbol) == symbol

\* _clean_symbol (lines 34-39)
_clean_symbol(symbol) ==
    IF symbol \in DOMAIN symbol_mapping THEN symbol_mapping[symbol] ELSE symbol

RECURSIVE HistoryLoopGivesUp(_, _, _, _)
\* the loop of lines 62-86 with an exception re-raised on whichever attempt
HistoryLoopGivesUp(answers, attempt, hist, log) ==
    IF attempt > MAX_RETRIES THEN [hist |-> hist, raised |-> FALSE, log |-> log]
    ELSE IF answers[attempt].kind = "raise"
    THEN [hist |-> hist, raised |-> TRUE, log |-> Append(log, "history")]
    ELSE IF ~IsEmpty(answers[attempt])
    THEN [hist |-> answers[attempt], raised |-> FALSE, log |-> Append(log, "history")]
    ELSE HistoryLoopGivesUp(answers, attempt + 1, answers[attempt],
                            IF attempt < MAX_RETRIES
                            THEN log \o <<"history", "sleep">>
                            ELSE Append(log, "history"))

RECURSIVE HistoryLoop(_, _, _, _)
\* lines 62-86: the value of hist after the loop, or the exception re-raised;
\* log is the calls of ticker.history and of time.sleep, in order
HistoryLoop(answers, attempt, hist, log) ==
    IF attempt > MAX_RETRIES THEN [hist |-> hist, raised |-> FALSE, log |-> log]
    ELSE IF answers[attempt].kind = "raise"
    THEN IF attempt < MAX_RETRIES
         THEN HistoryLoop(answers, attempt + 1, hist, log \o <<"history", "sleep">>)
         ELSE [hist |-> hist, raised |-> TRUE, log |-> Append(log, "history")]
    ELSE IF ~IsEmpty(answers[attempt])
    THEN [hist |-> answers[attempt], raised |-> FALSE, log |-> Append(log, "history")]
    ELSE HistoryLoop(answers, attempt + 1, answers[attempt],
                     IF attempt < MAX_RETRIES
                     THEN log \o <<"history", "sleep">>
                     ELSE Append(log, "history"))

CompanyKeys == {"company_name", "sector", "market_cap", "raw_info"}

\* None, or the dict of _calculate_indicators with the company fields added:
\* the value returned (some = FALSE: None), the symbol yf.Ticker was created
\* with and the calls made on it
fetch_stock_data(symbol, answers) ==
    LET clean_symbol == _clean_symbol(symbol)
        loop == HistoryLoop(answers, 1, NoFrame, <<>>)
        data == _calculate_indicators(loop.hist, symbol).result
    IN IF loop.raised \/ loop.hist.kind = "none" \/ IsEmpty(loop.hist)
       THEN [some |-> FALSE, data |-> ErrorRecord(symbol, ""),
             ticker |-> clean_symbol, log |-> loop.log]
       ELSE [some |-> TRUE, data |-> [data EXCEPT !.keys = @ \cup CompanyKeys],
             ticker |-> clean_symbol, log |-> loop.log]

(***************************************************************************)
(* analyze_single_stock (app.py 223-285).  A result dict is a record with  *)
(* the set of its keys; a key that is not in `keys` has a filler value.    *)
(* `origin` names the return statement that built the dict.                *)
(***************************************************************************)
FailureKeys == {"symbol", "passed", "error", "rs_rating", "fail_reasons", "metrics"}
VerdictKeys ==
    {"symbol", "passed", "rs_rating", "fail_reasons", "score", "max_score",
     "metrics", "details", "summary"}
NoSummary == [text |-> "", num |-> 0, den |-> 0]

\* a failure dict that says nothing about the failure
FetchFailureNoReason(symbol, stock_data) ==
    [keys |-> FailureKeys, symbol |-> symbol, passed |-> FALSE, error |-> "",
     rs_rating |-> 0, fail_reasons |-> <<>>, score |-> 0, max_score |-> 0,
     summary |-> NoSummary,
     origin |-> IF stock_data.some THEN "indicator_error" ELSE "no_data"]

\* lines 231-238
FetchFailure(symbol, stock_data) ==
    LET error_msg == IF stock_data.some THEN stock_data.data.error ELSE "No data returned"
    IN [keys |-> FailureKeys, symbol |-> symbol, passed |-> FALSE, error |-> error_msg,
        rs_rating |-> 0, fail_reasons |-> <<"Data fetch failed: " \o error_msg>>,
        score |-> 0, max_score |-> 0, summary |-> NoSummary,
        origin |-> IF stock_data.some THEN "indicator_error" ELSE "no_data"]

\* lines 274-285
AnalysisFailure(symbol) ==
    [keys |-> FailureKeys \cup {"score", "max_score"}, symbol |-> symbol,
     passed |-> FALSE, error |-> "str(e)", rs_rating |-> 0,
     fail_reasons |-> <<"Analysis failed: str(e)">>,
     score |-> 0, max_score |-> 7, summary |-> NoSummary, origin |-> "exception"]

\* lines 248-270
VerdictRecord(symbol, rs_rating, analysis_result) ==
    [keys |-> VerdictKeys, symbol |-> symbol, passed |-> analysis_result.passed,
     error |-> "", rs_rating |-> rs_rating,
     fail_reasons |-> analysis_result.fail_reasons,
     score |-> analysis_result.score, max_score |-> analysis_result.max_score,
     summary |-> analysis_result.summary, origin |-> "verdict"]

\* `fetched`: what data_fetcher.fetch_stock_data(symbol) returned; `fault`:
\* a statement of lines 241-270 raises.  The result dict, and the benchmark
\* cache as the call leaves it.
analyze_single_stock(symbol, fetched, fault, cache, ts, t, fetch) ==
    LET stock_data == fetched
        rs == calculate_rs_rating(stock_data.data.historical_data, cache, ts, t, fetch)
        analysis_result == analyze_with_rs_rating(stock_data.data, rs.rating)
    IN IF ~stock_data.some \/ "error" \in stock_data.data.keys
       THEN [result |-> FetchFailure(symbol, stock_data), cache |-> cache, ts |-> ts]
       ELSE IF fault
       THEN [result |-> AnalysisFailure(symbol), cache |-> rs.cache, ts |-> rs.ts]
       ELSE [result |-> VerdictRecord(symbol, rs.rating, analysis_result),
             cache |-> rs.cache, ts |-> rs.ts]

\* process_stocks_parallel, lines 210-219: future.result raised
CollectFailure(symbol) ==
    [keys |-> FailureKeys, symbol |-> symbol, passed |-> FALSE, error |-> "str(e)",
     rs_rating |-> 0, fail_reasons |-> <<"Data fetch failed: str(e)">>,
     score |-> 0, max_score |-> 0, summary |-> NoSummary, origin |-> "collect"]

MAX_WORKERS == 4

(***************************************************************************)
(* Inputs                                                                  *)
(***************************************************************************)
MaxPrice == 3

PriceVals == {Num(n) : n \in 0..MaxPrice} \cup {Absent, NonNum}

Snapshots ==
    [price : PriceVals, ma_50 : PriceVals, ma_150 : PriceVals, ma_200 : PriceVals,
     week_52_high : {Num(0), Num(MaxPrice + 1)},
     week_52_low : {Absent, Num(1)},
     from_low_pct : {Num(THRESH_LOW - 1), Num(THRESH_LOW), NonNum},
     from_high_pct : {Num(-THRESH_HIGH - 1), Num(-THRESH_HIGH)},
     ma_200_trending_up : {"true", "false"}]

RsInputs == {THRESH_RS - 1, THRESH_RS}

MaxLevel == 2

Levels == [1..5 -> 0..MaxLevel]
FlatLevels == <<1, 1, 1, 1, 1>>

\* histories of n trading days ending on LastDay
Lengths == {1, PERIOD_1 - 1, PERIOD_1, PERIOD_2, PERIOD_3, PERIOD_4, PERIOD_4 + Slack}

StockFrames ==
    {NoFrame, EmptyFrame, BogusFrame}
    \cup {Frame("ok", LastDay - n + 1, LastDay, 0, lv) : n \in Lengths, lv \in Levels}
    \* one day the benchmark does not have
    \cup {Frame("ok", LastDay + 1, LastDay + 1, 0, FlatLevels)}
    \* a NaN close on the day before the last
    \cup {Frame("ok", LastDay - n + 1, LastDay, LastDay - 1, FlatLevels) :
            n \in {PERIOD_1, PERIOD_1 + 1}}
    \cup {Frame(c, LastDay - n + 1, LastDay, 0, FlatLevels) :
            c \in {"no_close", "non_numeric"}, n \in {PERIOD_1, PERIOD_4}}

\* series handed to the indicator engine: n bars ending on LastDay
IndLengths ==
    {1, MIN_BARS - 1, MIN_BARS, MA_200_MIN - 1, MA_200_MIN, MA_200_WINDOW,
     MA_200_WINDOW + TREND_LOOKBACK, LastDay}
IndLevels == {<<a, b, b, c, c>> : a \in 0..MaxLevel, b \in 0..MaxLevel, c \in 0..MaxLevel}
IndFrames ==
    {Bars("ok", LastDay - n + 1, LastDay, 0, lv, up, spread, vol) :
        n \in IndLengths, lv \in IndLevels, up \in {0, 1}, spread \in {0, 1},
        vol \in {0, 1000}}
    \cup {Bars(c, LastDay - n + 1, LastDay, 0, FlatLevels, 0, 0, 1000) :
            c \in {"no_close", "non_numeric"}, n \in {MIN_BARS - 1, MIN_BARS}}
    \* prices of a tenth of a cent and a few of them
    \cup {[Bars("ok", LastDay - n + 1, LastDay, 0, lv, 0, 0, 1000) EXCEPT !.unit = 1000] :
            n \in {MIN_BARS, MA_200_MIN - 1},
            lv \in {l \in IndLevels : \A i \in 1..5 : l[i] >= 1}}
    \* the Close of the last bar is NaN
    \cup {Bars("ok", LastDay - n + 1, LastDay, LastDay, lv, 1, 0, 1000) :
            n \in {MIN_BARS, MA_200_MIN, LastDay}, lv \in IndLevels}

\* the symbols of one request
MaxSymbols == 2
AllSymbols == <<"AAPL", "BRK.B", "MSFT", "NVDA">>
SymbolLists == {SubSeq(AllSymbols, 1, k) : k \in 1..MaxSymbols}

\* price histories the provider answers with in a batch
RisingBars == Bars("ok", 1, LastDay, 0, FlatLevels, 1, 0, 1000)
FlatBars == Bars("ok", 1, LastDay, 0, FlatLevels, 0, 0, 1000)
ShortBars == Bars("ok", LastDay - MIN_BARS + 2, LastDay, 0, FlatLevels, 0, 0, 1000)
BatchAnswers ==
    {<<RaiseFetch, RaiseFetch, RaiseFetch>>,
     <<EmptyFrame, EmptyFrame, EmptyFrame>>,
     <<RisingBars, RisingBars, RisingBars>>,
     <<RaiseFetch, EmptyFrame, FlatBars>>,
     <<EmptyFrame, ShortBars, RisingBars>>}
BatchBenchmarks == {RaiseFetch, Frame("ok", 1, LastDay, 0, FlatLevels)}
\* fetch_stock_data on each of them; the symbol is filled in by the caller
BatchData == [answers \in BatchAnswers |-> fetch_stock_data("", answers)]
FetchedData(symbol, answers) == [BatchData[answers] EXCEPT !.data.symbol = symbol]

\* the threads that share one RSRatingCalculator
NThreads == 2
Threads == 1..NThreads
MaxCalls == 3
MaxClock == 1

\* the function called with its arguments, and its value
NoArg == [fn |-> "none", rp |-> NaN, rp2 |-> NaN, fr |-> NoFrame, window |-> 0,
          min_periods |-> 0, symbol |-> "", answers |-> <<>>]
NotFetched == [some |-> FALSE, data |-> ErrorRecord("", ""), ticker |-> "", log |-> <<>>]
NoValue == [rating |-> 0, rating2 |-> 0, flag |-> FALSE, stock_data |-> NotFetched,
            result |-> CollectFailure("")]

\* relative performances handed to _convert_to_rs_scale: the halves (exact
\* in binary floating point) from -MaxPerf to MaxPerf, the infinities and nan
MaxPerf == 101
PerfInputs == {Fin(n, 2) : n \in (-2 * MaxPerf)..(2 * MaxPerf)} \cup {PInf, NInf, NaN}

\* pairs of relative performances converted one after the other: every
\* input with itself and with the next half, and the values around the
\* breakpoints and the two ends of the scale with one another
BreakInputs ==
    {Fin(2 * c + k, 2) : c \in {-50, -5, 5, 20, 50, 100}, k \in -1..1}
    \cup {PInf, NInf, NaN}
PerfPairs ==
    {<<a, b>> \in PerfInputs \X PerfInputs :
        a.t = "fin" /\ b.t = "fin" /\ a.d * b.n - b.d * a.n \in {0, 1}}
    \cup (BreakInputs \X BreakInputs)

\* series handed to _is_trending_up: the rolling mean (window, min_periods)
\* of the closes of a frame; window 1 is the series of the closes themselves
TrendLengths ==
    {TREND_LOOKBACK, TREND_LOOKBACK + 1, MA_50_MIN + TREND_LOOKBACK - 1,
     MA_50_MIN + TREND_LOOKBACK, MA_200_MIN}
TrendWindows ==
    {<<1, 1>>, <<MA_50_WINDOW, MA_50_MIN>>, <<MA_150_WINDOW, MA_150_MIN>>,
     <<MA_200_WINDOW, MA_200_MIN>>}
TrendFrames ==
    {Bars("ok", LastDay - n + 1, LastDay, hole, lv, up, 0, 1) :
        n \in TrendLengths, hole \in {0, LastDay - TREND_LOOKBACK, LastDay},
        lv \in IndLevels, up \in {-1, 0, 1}}

\* symbols of a request, four of them in the remap table, and what
\* ticker.history answers on each of the three attempts
FetchSymbols == {"BRK.A", "BRK.B", "BF.B", "SQ", "AAPL", "BRK-B"}
FetchAnswers == [1..MAX_RETRIES -> {RaiseFetch, EmptyFrame, RisingBars, ShortBars}]

FnArgs ==
    {[NoArg EXCEPT !.fn = "convert", !.rp = rp] : rp \in PerfInputs}
    \cup {[NoArg EXCEPT !.fn = "convert2", !.rp = p[1], !.rp2 = p[2]] : p \in PerfPairs}
    \cup {[NoArg EXCEPT !.fn = "analyze", !.symbol = symbol, !.answers = answers] :
            symbol \in FetchSymbols, answers \in FetchAnswers}
    \cup {[NoArg EXCEPT !.fn = "trend", !.fr = fr, !.window = w[1], !.min_periods = w[2]] :
            fr \in TrendFrames, w \in TrendWindows}

\* the stock series of the repeated call
RepeatFrames ==
    {Frame("ok", LastDay - n + 1, LastDay, 0, lv) :
        n \in {PERIOD_1, PERIOD_4}, lv \in {FlatLevels, <<2, 1, 1, 1, 1>>}}

\* what the benchmark provider can answer: days 1..LastDay
BenchLevels == {FlatLevels, <<2, 1, 1, 1, 1>>, <<1, 0, 2, 2, 2>>}
BenchFrames == {Frame("ok", 1, LastDay, 0, lv) : lv \in BenchLevels}
FetchOutcomes == {RaiseFetch, NoFrame, EmptyFrame} \cup BenchFrames
NotCalled == [NoFrame EXCEPT !.kind = "not_called"]

(***************************************************************************)
(* Components not in use in a specification stay in these states           *)
(***************************************************************************)
NoVerdict ==
    [passed |-> FALSE, fail_reasons |-> <<>>, score |-> 0, max_score |-> 0,
     rs_rating |-> 0, details |-> <<>>,
     summary |-> [text |-> "", num |-> 0, den |-> 0], branch |-> "none"]

CritIdle ==
    /\ crit_pc = "idle"
    /\ crit_in = [price |-> Absent, ma_50 |-> Absent, ma_150 |-> Absent,
                  ma_200 |-> Absent, week_52_high |-> Absent, week_52_low |-> Absent,
                  from_low_pct |-> Absent, from_high_pct |-> Absent,
                  ma_200_trending_up |-> "false"]
    /\ crit_rs = 0
    /\ crit_out = NoVerdict

NoRating == [rating |-> 0, path |-> "none", errors |-> {}, bench |-> NoFrame,
             total |-> NaN, n |-> 0]

RsIdle ==
    /\ rs_pc = "idle"
    /\ rs_hist = NoFrame
    /\ rs_fetch = NotCalled
    /\ rs_out = NoRating
    /\ rs_again = NoRating

IndIdle ==
    /\ ind_pc = "idle"
    /\ ind_in = NoFrame
    /\ ind_hist = NoFrame
    /\ ind_out = ErrorRecord("", "")

NoResult == CollectFailure("")
NoFuture == [state |-> "none", yielded |-> FALSE, result |-> NoResult]

BatchIdle ==
    /\ batch_pc = "idle"
    /\ symbols = <<>>
    /\ fut = <<>>
    /\ results = <<>>

IdleThread == [pc |-> "idle", call |-> 0, hist |-> NoFrame, ret |-> NoFrame]

ThreadsIdle ==
    /\ th = [t \in Threads |-> IdleThread]
    /\ stamp_of = 0
    /\ calls = 0

FnIdle ==
    /\ fn_pc = "idle"
    /\ fn_arg = NoArg
    /\ fn_out = NoValue

\* RSRatingCalculator.__init__ (rs_calculator.py 31-36)
CacheInit ==
    /\ sp500_cache = NoFrame
    /\ cache_timestamp = NoneTs
    /\ now = 0

(***************************************************************************)
(* Criteria evaluator: one call of analyze_with_rs_rating                  *)
(***************************************************************************)
CritInit ==
    /\ crit_pc = "ready"
    /\ crit_in \in Snapshots
    /\ crit_rs \in RsInputs
    /\ crit_out = NoVerdict
    /\ RsIdle /\ CacheInit /\ IndIdle /\ BatchIdle /\ ThreadsIdle /\ FnIdle

Analyze ==
    /\ crit_pc = "ready"
    /\ crit_out' = analyze_with_rs_rating(crit_in, crit_rs)
    /\ crit_pc' = "done"
    /\ UNCHANGED <<crit_in, crit_rs, rs_vars, cache_vars, ind_vars, batch_vars,
                   thread_vars, fn_vars>>

CritNext == Analyze

SpecCriteria == CritInit /\ [][CritNext]_vars

(***************************************************************************)
(* RS rating engine: one call of calculate_rs_rating.  The calculator is   *)
(* new (nothing cached) or holds a benchmark series cached at minute 0 by  *)
(* an earlier call; the call happens just before or at the cache's expiry. *)
(***************************************************************************)
RsInit ==
    /\ rs_pc = "ready"
    /\ rs_hist \in StockFrames
    /\ rs_fetch = NotCalled
    /\ rs_out = NoRating
    /\ rs_again = NoRating
    /\ \/ CacheInit
       \/ /\ sp500_cache = Frame("ok", 1, LastDay, 0, FlatLevels)
          /\ cache_timestamp = 0
          /\ now \in {CACHE_TTL - 1, CACHE_TTL}
    /\ CritIdle /\ IndIdle /\ BatchIdle /\ ThreadsIdle /\ FnIdle

CalcRS ==
    /\ rs_pc = "ready"
    /\ \E fetch \in FetchOutcomes :
         LET r == calculate_rs_rating(rs_hist, sp500_cache, cache_timestamp, now, fetch)
         IN /\ rs_out' = [rating |-> r.rating, path |-> r.path, errors |-> r.errors,
                          total |-> r.total, n |-> r.n,
                          bench |-> r.bench]
            /\ rs_fetch' = IF r.called THEN fetch ELSE NotCalled
            /\ sp500_cache' = r.cache
            /\ cache_timestamp' = r.ts
    /\ rs_pc' = "done"
    /\ UNCHANGED <<rs_hist, rs_again, now, crit_vars, ind_vars, batch_vars, thread_vars,
                   fn_vars>>

RsNext == CalcRS

SpecRS == RsInit /\ [][RsNext]_vars

(***************************************************************************)
(* Two calls of calculate_rs_rating on one calculator with the same stock  *)
(* series; an hour may pass between them, and each call that finds the     *)
(* cache stale asks the provider, which answers as it likes.               *)
(***************************************************************************)
RepeatInit ==
    /\ RsInit
    /\ rs_hist \in RepeatFrames

\* an hour passes between the two calls
Wait ==
    /\ rs_pc = "done"
    /\ now < 2 * CACHE_TTL
    /\ now' = now + CACHE_TTL
    /\ UNCHANGED <<rs_vars, sp500_cache, cache_timestamp, crit_vars, ind_vars, batch_vars,
                   thread_vars, fn_vars>>

CalcRSAgain ==
    /\ rs_pc = "done"
    /\ \E fetch \in FetchOutcomes :
         LET r == calculate_rs_rating(rs_hist, sp500_cache, cache_timestamp, now, fetch)
         IN /\ rs_again' = [rating |-> r.rating, path |-> r.path, errors |-> r.errors,
                            total |-> r.total, n |-> r.n,
                            bench |-> r.bench]
            /\ sp500_cache' = r.cache
            /\ cache_timestamp' = r.ts
    /\ rs_pc' = "again"
    /\ UNCHANGED <<rs_hist, rs_fetch, rs_out, now, crit_vars, ind_vars, batch_vars,
                   thread_vars, fn_vars>>

RepeatNext == CalcRS \/ Wait \/ CalcRSAgain

SpecRepeat == RepeatInit /\ [][RepeatNext]_vars

(***************************************************************************)
(* Indicator engine: one call of _calculate_indicators(hist, symbol)       *)
(***************************************************************************)
IndInit ==
    /\ ind_pc = "ready"
    /\ ind_in \in IndFrames
    /\ ind_hist = ind_in
    /\ ind_out = ErrorRecord("", "")
    /\ CritIdle /\ RsIdle /\ CacheInit /\ BatchIdle /\ ThreadsIdle /\ FnIdle

CalcIndicators ==
    /\ ind_pc = "ready"
    /\ LET r == _calculate_indicators(ind_hist, "AAPL")
       IN /\ ind_out' = r.result
          /\ ind_hist' = r.hist
    /\ ind_pc' = "done"
    /\ UNCHANGED <<ind_in, crit_vars, rs_vars, cache_vars, batch_vars, thread_vars, fn_vars>>

IndNext == CalcIndicators

SpecInd == IndInit /\ [][IndNext]_vars

(***************************************************************************)
(* One call of a function on its own                                       *)
(***************************************************************************)
FnInit ==
    /\ fn_pc = "ready"
    /\ fn_arg \in FnArgs
    /\ fn_out = NoValue
    /\ CritIdle /\ RsIdle /\ IndIdle /\ CacheInit /\ BatchIdle /\ ThreadsIdle

\* self._convert_to_rs_scale(relative_performance)
Convert ==
    /\ fn_pc = "ready"
    /\ fn_arg.fn = "convert"
    /\ fn_out' = [NoValue EXCEPT !.rating = _convert_to_rs_scale(fn_arg.rp)]
    /\ fn_pc' = "done"
    /\ UNCHANGED <<fn_arg, crit_vars, rs_vars, ind_vars, cache_vars, batch_vars,
                   thread_vars>>

\* self._convert_to_rs_scale on one performance, then on another
ConvertPair ==
    /\ fn_pc = "ready"
    /\ fn_arg.fn = "convert2"
    /\ fn_out' = [NoValue EXCEPT !.rating = _convert_to_rs_scale(fn_arg.rp),
                                 !.rating2 = _convert_to_rs_scale(fn_arg.rp2)]
    /\ fn_pc' = "done"
    /\ UNCHANGED <<fn_arg, crit_vars, rs_vars, ind_vars, cache_vars, batch_vars,
                   thread_vars>>

\* self._is_trending_up(ma_series)
TrendingUp ==
    /\ fn_pc = "ready"
    /\ fn_arg.fn = "trend"
    /\ fn_out' = [NoValue EXCEPT
                    !.flag = _is_trending_up(fn_arg.fr, fn_arg.window, fn_arg.min_periods)]
    /\ fn_pc' = "done"
    /\ UNCHANGED <<fn_arg, crit_vars, rs_vars, ind_vars, cache_vars, batch_vars,
                   thread_vars>>

\* analyze_single_stock(symbol), with the fetch_stock_data call it makes
AnalyzeOne ==
    /\ fn_pc = "ready"
    /\ fn_arg.fn = "analyze"
    /\ \E fault \in BOOLEAN, fetch \in BatchBenchmarks :
         LET stock_data == fetch_stock_data(fn_arg.symbol, fn_arg.answers)
             r == analyze_single_stock(fn_arg.symbol, stock_data, fault, sp500_cache,
                                       cache_timestamp, now, fetch)
         IN /\ fn_out' = [NoValue EXCEPT !.stock_data = stock_data, !.result = r.result]
            /\ sp500_cache' = r.cache
            /\ cache_timestamp' = r.ts
    /\ fn_pc' = "done"
    /\ UNCHANGED <<fn_arg, now, crit_vars, rs_vars, ind_vars, batch_vars, thread_vars>>

FnNext == Convert \/ ConvertPair \/ TrendingUp \/ AnalyzeOne

SpecFn == FnInit /\ [][FnNext]_vars

(***************************************************************************)
(* Batch orchestrator: one call of process_stocks_parallel(symbols)        *)
(* (app.py 188-221) on the pool of MAX_WORKERS threads.                    *)
(***************************************************************************)
Init ==
    /\ batch_pc = "submit"
    /\ symbols \in SymbolLists
    /\ fut = <<>>
    /\ results = <<>>
    /\ CritIdle /\ RsIdle /\ IndIdle /\ CacheInit /\ ThreadsIdle /\ FnIdle

\* the submission of lines 193-196 leaving the last symbol out
SubmitAllButLast ==
    /\ batch_pc = "submit"
    /\ fut' = [i \in 1..(Len(symbols) - 1) |-> [NoFuture EXCEPT !.state = "pending"]]
    /\ batch_pc' = "collect"
    /\ UNCHANGED <<symbols, results, crit_vars, rs_vars, ind_vars, cache_vars, thread_vars,
                   fn_vars>>

\* lines 193-196: one future per symbol
Submit ==
    /\ batch_pc = "submit"
    /\ fut' = [i \in 1..Len(symbols) |-> [NoFuture EXCEPT !.state = "pending"]]
    /\ batch_pc' = "collect"
    /\ UNCHANGED <<symbols, results, crit_vars, rs_vars, ind_vars, cache_vars, thread_vars,
                   fn_vars>>

Busy == {i \in DOMAIN fut : fut[i].state \in {"running", "hung"}}

\* a pool thread takes the task
Start(i) ==
    /\ batch_pc = "collect"
    /\ fut[i].state = "pending"
    /\ Cardinality(Busy) < MAX_WORKERS
    /\ fut' = [fut EXCEPT ![i].state = "running"]
    /\ UNCHANGED <<batch_pc, symbols, results, crit_vars, rs_vars, ind_vars, cache_vars,
                   thread_vars, fn_vars>>

\* a provider call of the task never answers
Hang(i) ==
    /\ batch_pc = "collect"
    /\ fut[i].state = "running"
    /\ fut' = [fut EXCEPT ![i].state = "hung"]
    /\ UNCHANGED <<batch_pc, symbols, results, crit_vars, rs_vars, ind_vars, cache_vars,
                   thread_vars, fn_vars>>

\* analyze_single_stock(symbol) returns
Finish(i) ==
    /\ batch_pc = "collect"
    /\ fut[i].state = "running"
    /\ \E answers \in BatchAnswers, fault \in BOOLEAN, fetch \in BatchBenchmarks :
          LET r == analyze_single_stock(symbols[i], FetchedData(symbols[i], answers),
                                        fault, sp500_cache, cache_timestamp, now, fetch)
          IN /\ fut' = [fut EXCEPT ![i].state = "done", ![i].result = r.result]
             /\ sp500_cache' = r.cache
             /\ cache_timestamp' = r.ts
    /\ UNCHANGED <<batch_pc, symbols, results, now, crit_vars, rs_vars, ind_vars,
                   thread_vars, fn_vars>>

\* lines 199-219: as_completed yields a finished future; future.result, with
\* its timeout of 60 seconds, returns at once what the task returned or raises
\* what it raised
Collect(i) ==
    /\ batch_pc = "collect"
    /\ fut[i].state \in {"done", "raised"}
    /\ ~fut[i].yielded
    /\ results' = Append(results, IF fut[i].state = "raised"
                                  THEN CollectFailure(symbols[i])
                                  ELSE fut[i].result)
    /\ fut' = [fut EXCEPT ![i].yielded = TRUE]
    /\ UNCHANGED <<batch_pc, symbols, crit_vars, rs_vars, ind_vars, cache_vars, thread_vars,
                   fn_vars>>

\* line 221: as_completed is exhausted
Return ==
    /\ batch_pc = "collect"
    /\ \A i \in DOMAIN fut : fut[i].yielded
    /\ batch_pc' = "returned"
    /\ UNCHANGED <<symbols, fut, results, crit_vars, rs_vars, ind_vars, cache_vars,
                   thread_vars, fn_vars>>

Started == \E i \in DOMAIN fut : Start(i)
Hung == \E i \in DOMAIN fut : Hang(i)
Finished == \E i \in DOMAIN fut : Finish(i)
Collected == \E i \in DOMAIN fut : Collect(i)

Next == Submit \/ Started \/ Hung \/ Finished \/ Collected \/ Return

Spec == Init /\ [][Next]_vars

\* the pool runs a submitted task, a task that does not hang returns, and
\* the collecting loop proceeds
FairSpec ==
    /\ Spec
    /\ WF_vars(Submit) /\ WF_vars(Started) /\ WF_vars(Finished)
    /\ WF_vars(Collected) /\ WF_vars(Return)

(***************************************************************************)
(* Benchmark cache: threads inside _get_sp500_data (rs_calculator.py       *)
(* 100-136), one step per read or write of the shared attributes.          *)
(***************************************************************************)
CacheSpecInit ==
    /\ CacheInit /\ ThreadsIdle /\ FnIdle
    /\ CritIdle /\ RsIdle /\ IndIdle /\ BatchIdle

Goto(t, pc) == th' = [th EXCEPT ![t].pc = pc]

Call(t) ==
    /\ th[t].pc = "idle"
    /\ calls < MaxCalls
    /\ calls' = calls + 1
    /\ th' = [th EXCEPT ![t] = [IdleThread EXCEPT !.pc = "check_cache", !.call = calls + 1]]
    /\ UNCHANGED <<stamp_of, cache_vars, crit_vars, rs_vars, ind_vars, batch_vars, fn_vars>>

\* line 104: self.sp500_cache is not None
CheckCache(t) ==
    /\ th[t].pc = "check_cache"
    /\ Goto(t, IF sp500_cache.kind # "none" THEN "check_stamp" ELSE "fetch")
    /\ UNCHANGED <<calls, stamp_of, cache_vars, crit_vars, rs_vars, ind_vars, batch_vars,
                   fn_vars>>

\* line 105: self.cache_timestamp
CheckStamp(t) ==
    /\ th[t].pc = "check_stamp"
    /\ Goto(t, IF cache_timestamp # NoneTs THEN "check_age" ELSE "fetch")
    /\ UNCHANGED <<calls, stamp_of, cache_vars, crit_vars, rs_vars, ind_vars, batch_vars,
                   fn_vars>>

\* line 106: datetime.now() - self.cache_timestamp < timedelta(hours=1)
CheckAge(t) ==
    /\ th[t].pc = "check_age"
    /\ Goto(t, IF now - cache_timestamp < CACHE_TTL THEN "return_cache" ELSE "fetch")
    /\ UNCHANGED <<calls, stamp_of, cache_vars, crit_vars, rs_vars, ind_vars, batch_vars,
                   fn_vars>>

\* line 107: return self.sp500_cache
ReturnCache(t) ==
    /\ th[t].pc = "return_cache"
    /\ th' = [th EXCEPT ![t].pc = "done", ![t].ret = sp500_cache]
    /\ UNCHANGED <<calls, stamp_of, cache_vars, crit_vars, rs_vars, ind_vars, batch_vars,
                   fn_vars>>

\* lines 111-125: ticker.history answers or raises (lines 134-136)
FetchBenchmark(t) ==
    /\ th[t].pc = "fetch"
    /\ \E answer \in {RaiseFetch, EmptyFrame, Frame("ok", 1, LastDay, 0, FlatLevels)} :
          LET hist == [answer EXCEPT !.id = th[t].call]
          IN th' = [th EXCEPT ![t].hist = hist,
                              ![t].pc = IF answer.kind = "raise" THEN "done"
                                        ELSE IF ~IsEmpty(answer) THEN "store_cache"
                                        ELSE "return_hist"]
    /\ UNCHANGED <<calls, stamp_of, cache_vars, crit_vars, rs_vars, ind_vars, batch_vars,
                   fn_vars>>

\* line 126: self.sp500_cache = hist
StoreCache(t) ==
    /\ th[t].pc = "store_cache"
    /\ sp500_cache' = th[t].hist
    /\ Goto(t, "store_stamp")
    /\ UNCHANGED <<calls, stamp_of, cache_timestamp, now, crit_vars, rs_vars, ind_vars,
                   batch_vars, fn_vars>>

\* line 127: self.cache_timestamp = datetime.now()
StoreStamp(t) ==
    /\ th[t].pc = "store_stamp"
    /\ cache_timestamp' = now
    /\ stamp_of' = th[t].call
    /\ Goto(t, "return_hist")
    /\ UNCHANGED <<calls, sp500_cache, now, crit_vars, rs_vars, ind_vars, batch_vars, fn_vars>>

\* line 132: return hist
ReturnHist(t) ==
    /\ th[t].pc = "return_hist"
    /\ th' = [th EXCEPT ![t].pc = "done", ![t].ret = th[t].hist]
    /\ UNCHANGED <<calls, stamp_of, cache_vars, crit_vars, rs_vars, ind_vars, batch_vars,
                   fn_vars>>

\* the caller has the value; the thread is free for its next task
Leave(t) ==
    /\ th[t].pc = "done"
    /\ Goto(t, "idle")
    /\ UNCHANGED <<calls, stamp_of, cache_vars, crit_vars, rs_vars, ind_vars, batch_vars,
                   fn_vars>>

\* an hour passes
Tick ==
    /\ now < MaxClock * CACHE_TTL
    /\ now' = now + CACHE_TTL
    /\ UNCHANGED <<th, calls, stamp_of, sp500_cache, cache_timestamp, crit_vars, rs_vars,
                   ind_vars, batch_vars, fn_vars>>

Called == \E t \in Threads : Call(t)
CheckedCache == \E t \in Threads : CheckCache(t)
CheckedStamp == \E t \in Threads : CheckStamp(t)
CheckedAge == \E t \in Threads : CheckAge(t)
ReturnedCache == \E t \in Threads : ReturnCache(t)
Fetched == \E t \in Threads : FetchBenchmark(t)
StoredCache == \E t \in Threads : StoreCache(t)
StoredStamp == \E t \in Threads : StoreStamp(t)
ReturnedHist == \E t \in Threads : ReturnHist(t)
Left == \E t \in Threads : Leave(t)

CacheNext ==
    \/ Called \/ CheckedCache \/ CheckedStamp \/ CheckedAge \/ ReturnedCache
    \/ Fetched \/ StoredCache \/ StoredStamp \/ ReturnedHist \/ Left \/ Tick

SpecCache == CacheSpecInit /\ [][CacheNext]_vars


(***************************************************************************)
(* C1.  For every snapshot whose values are numbers or missing (zero and   *)
(* missing included) and every RS rating, the verdict has passed = true    *)
(* exactly when all seven rules pass, score = the number of the seven      *)
(* rules that pass, and max_score = 7.                                     *)
(***************************************************************************)
\* the seven rules of the table, applied to the snapshot's values
SevenRules(sd, rs) ==
    << _check_price_above_mas(Get(sd.price, Num(0)).v, Get(sd.ma_150, Num(0)).v,
                              Get(sd.ma_200, Num(0)).v),
       _check_ma_150_above_200(Get(sd.ma_150, Num(0)).v, Get(sd.ma_200, Num(0)).v),
       _check_ma_200_trending_up(TrendFlag(sd)),
       _check_ma_50_above_others(Get(sd.ma_50, Num(0)).v, Get(sd.ma_150, Num(0)).v,
                                 Get(sd.ma_200, Num(0)).v),
       _check_above_52w_low(Get(sd.from_low_pct, Num(0)).v),
       _check_near_52w_high(Get(sd.from_high_pct, Num(0)).v),
       _check_rs_rating_strong(rs) >>

AllNumeric(sd) ==
    \A f \in {"price", "ma_50", "ma_150", "ma_200", "week_52_high", "week_52_low",
              "from_low_pct", "from_high_pct"} : sd[f].k # "obj"

C1_VerdictIsAndOfSevenRules ==
    (crit_pc = "done" /\ AllNumeric(crit_in)) =>
        /\ crit_out.passed = AllPasses(SevenRules(crit_in, crit_rs))
        /\ crit_out.score = CountPasses(SevenRules(crit_in, crit_rs))
        /\ crit_out.max_score = 7

(***************************************************************************)
(* C5.  Whenever an internal error occurs while the rules are evaluated,   *)
(* the verdict returned by analyze_with_rs_rating has passed = false and   *)
(* a fail_reasons entry citing the error, whatever the RS rating is.       *)
(***************************************************************************)
ErrorOccurs(sd) ==
    /\ \A f \in {"price", "ma_50", "ma_150", "ma_200", "week_52_high", "week_52_low"} :
          Truthy(Get(sd[f], Num(0)))
    /\ RulesRaise(sd)

C5_ErrorDegradesToFailedVerdict ==
    (crit_pc = "done" /\ ErrorOccurs(crit_in)) =>
        /\ ~crit_out.passed
        /\ \E i \in 1..Len(crit_out.fail_reasons) :
              crit_out.fail_reasons[i] = "Analysis error: E"

(***************************************************************************)
(* C2.  calculate_rs_rating returns an integer in [1, 99] on every path:   *)
(* missing history, missing benchmark, short aligned history, every value  *)
(* of the weighted relative performance, every caught error.               *)
(***************************************************************************)
C2_RatingInRange ==
    rs_pc = "done" => rs_out.rating \in 1..99

\* a rating computed from a relative performance below the bottom of the
\* scale: the stock halved while the benchmark doubled, in every window
C2_Witness ==
    /\ rs_pc = "done" /\ rs_out.path = "computed" /\ rs_out.rating = 1
    /\ NBars(rs_hist) = PERIOD_4
    /\ rs_hist.lv = <<1, 2, 2, 2, 2>> /\ rs_out.bench.lv = <<2, 1, 1, 1, 1>>

(***************************************************************************)
(* C3.  When the stock series and the benchmark series are both non-empty  *)
(* but share no trading date, calculate_rs_rating returns exactly 1.       *)
(***************************************************************************)
C3_NoOverlapGivesOne ==
    (/\ rs_pc = "done"
     /\ rs_hist.kind = "frame" /\ ~IsEmpty(rs_hist)
     /\ rs_out.bench.kind = "frame" /\ ~IsEmpty(rs_out.bench)
     /\ Dates(rs_hist) \cap Dates(rs_out.bench) = {})
    => rs_out.rating = 1

(***************************************************************************)
(* C4.  Any unexpected error raised at any step of the RS procedure        *)
(* (benchmark retrieval, date alignment, per-period return computation,    *)
(* scale conversion) makes calculate_rs_rating return 1.                   *)
(***************************************************************************)
C4_AnyErrorGivesOne ==
    (rs_pc = "done" /\ rs_out.errors # {}) => rs_out.rating = 1

(***************************************************************************)
(* C6.  _calculate_indicators reports an insufficient-data error, with     *)
(* none of the snapshot's metric fields present, for every series of fewer *)
(* than 50 bars (49 included), and returns a complete snapshot with no     *)
(* error field for a series of exactly 50 bars.                            *)
(***************************************************************************)
InsufficientReported ==
    /\ ind_out.keys = {"symbol", "error"}
    /\ ind_out.error = "Insufficient data"

CompleteSnapshot ==
    /\ ind_out.keys = SnapshotKeys
    /\ "error" \notin ind_out.keys

C6_Boundary50 ==
    (ind_pc = "done" /\ ind_in.cols = "ok") =>
        /\ NBars(ind_in) < 50 => InsufficientReported
        /\ NBars(ind_in) = 50 => CompleteSnapshot

(***************************************************************************)
(* C7.  In process_stocks_parallel a failure of one symbol's analysis      *)
(* (fetch returns nothing, indicator error, exception in the worker) never *)
(* aborts the batch: the call returns unless a task hangs, and when it has *)
(* returned the list holds one record per symbol, the record of a failing  *)
(* symbol has passed = false and a non-empty fail_reasons.                 *)
(***************************************************************************)
FailureOrigins == {"no_data", "indicator_error", "exception", "collect"}

EverySymbolReported ==
    /\ Len(results) = Len(symbols)
    /\ \A i \in DOMAIN symbols : \E k \in DOMAIN results : results[k].symbol = symbols[i]

FailuresTagged ==
    \A k \in DOMAIN results :
        results[k].origin \in FailureOrigins =>
            ~results[k].passed /\ results[k].fail_reasons # <<>>

C7_FailureNeverAbortsBatch ==
    /\ [](batch_pc = "returned" => EverySymbolReported /\ FailuresTagged)
    /\ <>(batch_pc = "returned" \/ \E i \in DOMAIN fut : fut[i].state = "hung")

C7_Witness ==
    /\ batch_pc = "returned"
    /\ Len(results) = 2
    /\ results[1].symbol = symbols[2] /\ results[1].origin = "verdict" /\ results[1].passed
    /\ results[2].symbol = symbols[1] /\ results[2].origin = "no_data"

(***************************************************************************)
(* C8.  Every record that process_stocks_parallel returns, a normal        *)
(* verdict or a failure record, has the same set of fields: symbol,        *)
(* passed, rs_rating, score, max_score, fail_reasons, metrics, details and *)
(* summary.                                                                *)
(***************************************************************************)
ResultFields ==
    {"symbol", "passed", "rs_rating", "score", "max_score", "fail_reasons",
     "metrics", "details", "summary"}

C8_UniformRecordShape ==
    \A k \in DOMAIN results : results[k].keys = ResultFields

(***************************************************************************)
(* C9.  A task that does not complete within the 60 seconds of the         *)
(* per-symbol timeout cannot block the batch: process_stocks_parallel      *)
(* eventually returns.                                                     *)
(***************************************************************************)
C9_TimeoutBoundsBatch == <>(batch_pc = "returned")

(***************************************************************************)
(* C10.  With several threads inside _get_sp500_data, whenever a thread is *)
(* about to read the cache, sp500_cache and cache_timestamp were written   *)
(* by the same refresh: both unset, or both set by one call.               *)
(***************************************************************************)
CacheConsistent ==
    \/ sp500_cache.kind = "none" /\ cache_timestamp = NoneTs
    \/ sp500_cache.kind # "none" /\ cache_timestamp # NoneTs /\ stamp_of = sp500_cache.id

Reading == {"check_cache", "check_stamp", "check_age", "return_cache"}

C10_RefreshIsAtomic ==
    \A t \in Threads : th[t].pc \in Reading => CacheConsistent

(***************************************************************************)
(* C11.  _convert_to_rs_scale maps every relative performance rp to its    *)
(* band: rp >= 50 gives 90..99, 20 <= rp < 50 gives 80..89, 5 <= rp < 20   *)
(* gives 70..79, -5 <= rp < 5 gives 50..69, rp < -5 gives 1..49; within a  *)
(* band the result is the band floor plus the truncated linear offset, and *)
(* rp >= 100 gives 99 and rp <= -50 gives 1.                               *)
(***************************************************************************)
\* n/d >= c and n/d < c, for d > 0
AtLeast(rp, c) == rp.t = "pinf" \/ (rp.t = "fin" /\ rp.n >= c * rp.d)
Below(rp, c) == rp.t = "ninf" \/ (rp.t = "fin" /\ rp.n < c * rp.d)

\* floor of (n/d - from) * slope_n / slope_d, for n/d >= from
Offset(rp, from, slope_n, slope_d) ==
    ((rp.n - from * rp.d) * slope_n) \div (slope_d * rp.d)

BandRating(rp) ==
    IF rp.t = "pinf" THEN 99
    ELSE IF rp.t = "ninf" THEN 1
    ELSE IF AtLeast(rp, 100) THEN 99
    ELSE IF AtLeast(rp, 50) THEN 90 + Offset(rp, 50, 9, 50)
    ELSE IF AtLeast(rp, 20) THEN 80 + Offset(rp, 20, 9, 30)
    ELSE IF AtLeast(rp, 5) THEN 70 + Offset(rp, 5, 9, 15)
    ELSE IF AtLeast(rp, -5) THEN 50 + Offset(rp, -5, 19, 10)
    ELSE IF AtLeast(rp, -50)
    THEN 49 - (((-5 * rp.d - rp.n) * 48) \div (45 * rp.d))
    ELSE 1

C11_BandMapping ==
    (fn_pc = "done" /\ fn_arg.fn = "convert" /\ fn_arg.rp.t # "nan") =>
        LET rp == fn_arg.rp
            rating == fn_out.rating
        IN /\ rating = BandRating(rp)
           /\ AtLeast(rp, 50) => rating \in 90..99
           /\ (AtLeast(rp, 20) /\ Below(rp, 50)) => rating \in 80..89
           /\ (AtLeast(rp, 5) /\ Below(rp, 20)) => rating \in 70..79
           /\ (AtLeast(rp, -5) /\ Below(rp, 5)) => rating \in 50..69
           /\ Below(rp, -5) => rating \in 1..49
           /\ AtLeast(rp, 100) => rating = 99
           /\ ~AtLeast(rp, -50) \/ rp = Fin(-50, 1) => rating = 1

C11_Witness ==
    /\ fn_pc = "done" /\ fn_arg.fn = "convert"
    /\ fn_arg.rp = Fin(99, 2) /\ fn_out.rating = 88

(***************************************************************************)
(* C12.  For an aligned history of at least 63 bars the total relative     *)
(* performance that calculate_rs_rating converts is the sum over the       *)
(* windows 63, 126, 189, 252 with weights 0.4, 0.2, 0.2, 0.2 of            *)
(* weight * (stock return % - benchmark return %) for each window no       *)
(* longer than the aligned history, and exactly 0 for each longer window.  *)
(***************************************************************************)
\* both frames hold a number on every day
Regular(fr) == fr.kind = "frame" /\ fr.cols = "ok" /\ fr.hole = 0

CommonFirst == Max2(rs_hist.first, rs_out.bench.first)
CommonLast == Min2(rs_hist.last, rs_out.bench.last)
CommonLen == IF CommonLast >= CommonFirst THEN CommonLast - CommonFirst + 1 ELSE 0

\* the return in percent of fr over the last N common days
WindowReturn(fr, N) == PctReturn(Close(fr, CommonLast), Close(fr, CommonLast - N + 1))

\* tenths * (stock return - benchmark return), or 0 for a window too long
Weighted(N, tenths) ==
    IF CommonLen >= N
    THEN XScale(XSub(WindowReturn(rs_hist, N), WindowReturn(rs_out.bench, N)), tenths, 10)
    ELSE Fin(0, 1)

ExpectedTotal ==
    XAdd(XAdd(XAdd(Weighted(63, 4), Weighted(126, 2)), Weighted(189, 2)), Weighted(252, 2))

RatedRegular ==
    /\ rs_pc = "done"
    /\ Regular(rs_hist) /\ Regular(rs_out.bench)

C12_WeightedSumZeroesMissingWindows ==
    (RatedRegular /\ CommonLen >= 63) =>
        /\ rs_out.path = "computed"
        /\ rs_out.n = CommonLen
        /\ rs_out.total = ExpectedTotal

\* 126 aligned days: two windows count, two are zeroed; 0.4 * 100 + 0.2 * 100
C12_Witness ==
    /\ RatedRegular /\ CommonLen = 126
    /\ rs_hist.lv = <<2, 1, 1, 0, 0>> /\ rs_out.bench.lv = <<1, 1, 1, 1, 1>>
    /\ rs_out.total = Fin(60, 1)

(***************************************************************************)
(* C13.  With 1 to 62 aligned bars calculate_rs_rating returns 50; with 63 *)
(* aligned bars it computes the rating from the 63-day window.             *)
(***************************************************************************)
ExpectedRating(total) == IF total.t = "nan" THEN 1 ELSE BandRating(total)

C13_NeutralBelow63 ==
    RatedRegular =>
        /\ CommonLen \in 1..62 => rs_out.rating = 50 /\ rs_out.path = "insufficient"
        /\ CommonLen = 63 =>
              /\ rs_out.path = "computed"
              /\ rs_out.rating = ExpectedRating(Weighted(63, 4))

\* 63 aligned days, the stock doubled against a flat benchmark: 0.4 * 100 = 40
C13_Witness ==
    /\ RatedRegular /\ CommonLen = 63
    /\ rs_hist.lv = <<2, 1, 1, 1, 1>> /\ rs_out.bench.lv = <<1, 1, 1, 1, 1>>
    /\ rs_out.rating = 86

(***************************************************************************)
(* C14.  Whenever the stock and the benchmark have equal returns over      *)
(* every lookback window of the aligned history, the total relative        *)
(* performance is 0 and calculate_rs_rating returns exactly 59.            *)
(***************************************************************************)
EqualReturn(N) ==
    CommonLen >= N =>
        /\ WindowReturn(rs_hist, N).t = "fin"
        /\ WindowReturn(rs_hist, N) = WindowReturn(rs_out.bench, N)

C14_EqualReturnsGive59 ==
    (/\ RatedRegular /\ CommonLen >= 63
     /\ \A i \in 1..Len(periods) : EqualReturn(periods[i])) =>
        rs_out.total = Fin(0, 1) /\ rs_out.rating = 59

\* both doubled over the last quarter, 252 aligned days
C14_Witness ==
    /\ RatedRegular /\ CommonLen >= 252
    /\ rs_hist.lv = <<2, 1, 1, 1, 1>> /\ rs_out.bench.lv = <<2, 1, 1, 1, 1>>
    /\ rs_out.rating = 59

(***************************************************************************)
(* C15.  When the seven rules are evaluated, each passes exactly when its  *)
(* table condition holds: the comparisons of rules 1, 2 and 4 are strict,  *)
(* rule 3 is the trend flag, rule 5 is from_low_pct >= 30.0, rule 6 is     *)
(* |from_high_pct| <= 25.0 and rule 7 is rs_rating >= 70                   *)
(* (minervini_criteria.py 145-253, 302-313).                               *)
(***************************************************************************)
TableCondition(sd, rs) ==
    << sd.price.v > sd.ma_150.v /\ sd.price.v > sd.ma_200.v,
       sd.ma_150.v > sd.ma_200.v,
       sd.ma_200_trending_up = "true",
       sd.ma_50.v > sd.ma_150.v /\ sd.ma_50.v > sd.ma_200.v,
       ~(sd.from_low_pct.v < 300),
       sd.from_high_pct.v \in -250..250,
       ~(rs < 70) >>

FailingRules(sd, rs) ==
    SelectSeq(<<1, 2, 3, 4, 5, 6, 7>>, LAMBDA i : ~TableCondition(sd, rs)[i])

OneReasonPerFailingRule ==
    LET failing == FailingRules(crit_in, crit_rs)
    IN /\ Len(crit_out.fail_reasons) = Len(failing)
       /\ \A k \in 1..Len(failing) :
             /\ crit_out.fail_reasons[k] # ""
             /\ crit_out.fail_reasons[k] = SevenRules(crit_in, crit_rs)[failing[k]].reason

C16_ReasonsFollowRuleOrder ==
    (crit_pc = "done" /\ crit_out.branch = "rules") => OneReasonPerFailingRule

\* rules 2, 3 and 7 fail and the other four pass
C16_Witness ==
    /\ crit_pc = "done" /\ crit_out.branch = "rules"
    /\ FailingRules(crit_in, crit_rs) = <<2, 3, 7>>
    /\ crit_out.fail_reasons = <<"150MA ($X) below 200MA ($Y)", "200MA not trending up",
                                 "RS Rating X below 70">>

\* C16 as stated, for every verdict over numeric values: a verdict that
\* skipped the rules carries "Insufficient data for analysis" instead
C16_EveryVerdict ==
    (crit_pc = "done" /\ AllNumeric(crit_in)) => OneReasonPerFailingRule

(***************************************************************************)
(* C17.  The summary of every verdict is the "All Minervini criteria       *)
(* passed - Perfect trend template" message when passed is true, and       *)
(* otherwise "<score>/7 criteria passed" with the verdict's score and the  *)
(* denominator 7 (minervini_criteria.py 284-298, 315-323).                 *)
(***************************************************************************)
C17_SummaryReportsScoreOfSeven ==
    crit_pc = "done" =>
        IF crit_out.passed
        THEN crit_out.summary.text = "All Minervini criteria passed - Perfect trend template"
        ELSE /\ crit_out.summary.text = "X/Y criteria passed"
             /\ crit_out.summary.num = crit_out.score
             /\ crit_out.summary.den = 7

(***************************************************************************)
(* C18.  Whenever ma_200_trending_up is false, rule 3 fails, the verdict   *)
(* has passed = false whatever the other six rules give, and fail_reasons  *)
(* contains exactly one entry mentioning "200MA"                           *)
(* (minervini_criteria.py 145-213).                                        *)
(***************************************************************************)
\* the reason templates that contain the text "200MA"
Mentions200MA ==
    {"Price below both 150MA ($X) & 200MA ($Y)", "Price below 200MA ($Y)",
     "150MA ($X) below 200MA ($Y)", "200MA not trending up",
     "50MA below both 150MA & 200MA", "50MA ($X) below 200MA ($Y)"}

Entries200MA ==
    {k \in 1..Len(crit_out.fail_reasons) : crit_out.fail_reasons[k] \in Mentions200MA}

C18_TrendDownFailsVerdict ==
    (crit_pc = "done" /\ AllNumeric(crit_in) /\ crit_in.ma_200_trending_up = "false") =>
        /\ ~crit_out.passed
        /\ Cardinality(Entries200MA) = 1

(***************************************************************************)
(* C19.  For every price series of at least 200 bars whose closes are      *)
(* increasing from each bar to the next, _calculate_indicators sets        *)
(* ma_50_trending_up, ma_150_trending_up and ma_200_trending_up to true,   *)
(* and rule 3 passes on the snapshot (data_fetcher.py 130-155, 203-218).   *)
(***************************************************************************)
IncreasingCloses(fr) ==
    \A d \in fr.first..(fr.last - 1) : Close(fr, d + 1) > Close(fr, d)

AllTrendingUp ==
    /\ ind_out.keys = SnapshotKeys
    /\ ind_out.ma_50_trending_up = "true"
    /\ ind_out.ma_150_trending_up = "true"
    /\ ind_out.ma_200_trending_up = "true"
    /\ _check_ma_200_trending_up(ind_out.ma_200_trending_up = "true").passes

C19_IncreasingSeriesTrendsUp ==
    (/\ ind_pc = "done" /\ ind_in.cols = "ok" /\ ind_in.hole = 0
     /\ NBars(ind_in) >= 200 /\ IncreasingCloses(ind_in)) => AllTrendingUp

(***************************************************************************)
(* C20.  _is_trending_up compares the last value of the series with the    *)
(* value exactly 20 bars earlier (position -21) and returns true only when *)
(* the last is strictly greater; with fewer than 21 entries, or with       *)
(* either of the two values undefined (NaN), it returns false, so the      *)
(* flag is always a boolean (data_fetcher.py 203-218).                     *)
(***************************************************************************)
\* the series' value at position p (1..len)
SeriesAt(p) == RollingMean(fn_arg.fr, p, fn_arg.window, fn_arg.min_periods)

LastAbove20Earlier ==
    LET len == NBars(fn_arg.fr)
        last == SeriesAt(len)
        earlier == SeriesAt(len - 20)
    IN /\ len >= 21
       /\ last.t = "fin" /\ earlier.t = "fin"
       /\ last.n * earlier.d > earlier.n * last.d

C20_TrendFlag ==
    (fn_pc = "done" /\ fn_arg.fn = "trend") =>
        /\ fn_out.flag \in BOOLEAN
        /\ fn_out.flag = LastAbove20Earlier

\* exactly 21 closes, each above the one before: the one comparison is
\* between the last and the first
C20_Witness ==
    /\ fn_pc = "done" /\ fn_arg.fn = "trend"
    /\ NBars(fn_arg.fr) = 21 /\ fn_arg.window = 1 /\ fn_arg.fr.hole = 0
    /\ fn_arg.fr.up = 1
    /\ fn_out.flag = TRUE

(***************************************************************************)
(* C21.  In every snapshot returned by _calculate_indicators, each of      *)
(* ma_50, ma_150 and ma_200 is the rolling mean of its window when that    *)
(* mean is defined (at least 25 / 75 / 100 closes) and exactly the         *)
(* snapshot's price when it is not; no MA field is ever undefined          *)
(* (data_fetcher.py 130-150, 177-197).                                     *)
(***************************************************************************)
MAFieldFollowsMean(field, window, min_periods) ==
    LET mean == RollingMean(ind_in, NBars(ind_in), window, min_periods)
    IN /\ ind_out[field].k = "num"
       /\ mean.t = "fin" => ind_out[field] = Num(RoundDiv(100 * mean.n, mean.d))
       /\ mean.t = "nan" => ind_out[field] = ind_out.price

C21_MAFallsBackToPrice ==
    (ind_pc = "done" /\ ind_out.keys = SnapshotKeys) =>
        /\ MAFieldFollowsMean("ma_50", 50, 25)
        /\ MAFieldFollowsMean("ma_150", 150, 75)
        /\ MAFieldFollowsMean("ma_200", 200, 100)

(***************************************************************************)
(* C22.  _calculate_indicators has no side effects: after the call the     *)
(* price series handed to it is unchanged, same bars and same columns      *)
(* (data_fetcher.py 119-201).                                              *)
(***************************************************************************)
C22_InputSeriesUnchanged == ind_pc = "done" => ind_hist = ind_in

(***************************************************************************)
(* C23.  Two calls in succession with identical arguments give identical   *)
(* outputs: two calculate_rs_rating calls for the same stock series return *)
(* the same rating whatever happens to the benchmark cache between them    *)
(* (rs_calculator.py 38-136).                                              *)
(***************************************************************************)
C23_SameRatingTwice == rs_pc = "again" => rs_again.rating = rs_out.rating

(***************************************************************************)
(* C24.  For a symbol in the remap table (BRK.A, BRK.B, BF.B, SQ) the      *)
(* provider is called only with the remapped symbol, and every record      *)
(* built for it (the indicator snapshot or error record, the result of     *)
(* analyze_single_stock) carries the original symbol; a symbol not in the  *)
(* table goes to the provider unchanged (data_fetcher.py 26-117,           *)
(* app.py 223-285).                                                        *)
(***************************************************************************)
ProviderSymbol(symbol) ==
    CASE symbol = "BRK.A" -> "BRK-A"
      [] symbol = "BRK.B" -> "BRK-B"
      [] symbol = "BF.B" -> "BF-B"
      [] symbol = "SQ" -> "BLOCK"
      [] OTHER -> symbol

C24_RemapOnlyTowardsProvider ==
    (fn_pc = "done" /\ fn_arg.fn = "analyze") =>
        /\ fn_out.stock_data.ticker = ProviderSymbol(fn_arg.symbol)
        /\ fn_out.stock_data.some => fn_out.stock_data.data.symbol = fn_arg.symbol
        /\ fn_out.result.symbol = fn_arg.symbol

\* BRK.B asked as BRK-B; its snapshot and its verdict are keyed BRK.B
C24_Witness ==
    /\ fn_pc = "done" /\ fn_arg.fn = "analyze" /\ fn_arg.symbol = "BRK.B"
    /\ fn_out.stock_data.ticker = "BRK-B"
    /\ fn_out.stock_data.some /\ fn_out.stock_data.data.keys = SnapshotKeys \cup CompanyKeys
    /\ fn_out.stock_data.data.symbol = "BRK.B"
    /\ fn_out.result.origin = "verdict" /\ fn_out.result.symbol = "BRK.B"

(***************************************************************************)
(* C25.  fetch_stock_data calls the provider's history at most 3 times per *)
(* symbol, stops at the first non-empty result, sleeps between attempts    *)
(* but not after the last one, and returns None when all three attempts    *)
(* are empty or the last one raises; an exception on attempt 1 or 2 is     *)
(* followed by another attempt (data_fetcher.py 59-91, 115-117).           *)
(***************************************************************************)
\* the attempts that brought a non-empty series
GoodAttempts(answers) ==
    {i \in 1..3 : answers[i].kind = "frame" /\ answers[i].last >= answers[i].first}

\* the attempts made: up to the first good one, all three without one
AttemptsMade(answers) ==
    IF GoodAttempts(answers) = {} THEN 3
    ELSE CHOOSE i \in GoodAttempts(answers) : \A j \in GoodAttempts(answers) : i <= j

C25_AtMostThreeAttempts ==
    (fn_pc = "done" /\ fn_arg.fn = "analyze") =>
        LET log == fn_out.stock_data.log
            made == AttemptsMade(fn_arg.answers)
        IN /\ Len(log) = 2 * made - 1
           /\ \A k \in 1..Len(log) : log[k] = IF k % 2 = 1 THEN "history" ELSE "sleep"
           /\ fn_out.stock_data.some = (GoodAttempts(fn_arg.answers) # {})

\* an exception, then an empty series, then an exception: three calls, two
\* sleeps, None
C25_Witness ==
    /\ fn_pc = "done" /\ fn_arg.fn = "analyze"
    /\ fn_arg.answers = <<RaiseFetch, EmptyFrame, RaiseFetch>>
    /\ fn_out.stock_data.log = <<"history", "sleep", "history", "sleep", "history">>
    /\ ~fn_out.stock_data.some

(***************************************************************************)
(* C26.  _get_sp500_data returns the cached benchmark series without       *)
(* calling the provider whenever a series is cached and its timestamp is   *)
(* less than one hour old; it calls the provider when nothing is cached or *)
(* the entry is an hour old or more; and a refresh that returns an empty   *)
(* series or raises leaves sp500_cache and cache_timestamp unchanged       *)
(* (rs_calculator.py 100-136).                                             *)
(***************************************************************************)
\* the call of calculate_rs_rating got as far as _get_sp500_data
AsksBenchmark == rs_hist.kind = "frame" /\ rs_hist.last >= rs_hist.first

LessThanAnHourOld ==
    /\ sp500_cache.kind = "frame"
    /\ cache_timestamp >= 0
    /\ now - cache_timestamp < 60

C26_CacheServesWithinTheHour ==
    [][(rs_pc = "ready" /\ rs_pc' = "done" /\ AsksBenchmark) =>
         IF LessThanAnHourOld
         THEN /\ rs_fetch' = NotCalled
              /\ rs_out'.bench = sp500_cache
              /\ UNCHANGED <<sp500_cache, cache_timestamp>>
         ELSE /\ rs_fetch' # NotCalled
              /\ (rs_fetch'.kind # "frame" \/ rs_fetch'.last < rs_fetch'.first) =>
                     UNCHANGED <<sp500_cache, cache_timestamp>>
              /\ (rs_fetch'.kind = "frame" /\ rs_fetch'.last >= rs_fetch'.first) =>
                     /\ sp500_cache' = rs_fetch' /\ cache_timestamp' = now
                     /\ rs_out'.bench = rs_fetch']_vars

\* the entry is exactly one hour old, the refresh raises, the entry stays
C26_Witness ==
    /\ rs_pc = "done" /\ AsksBenchmark
    /\ now = 60 /\ rs_fetch = RaiseFetch
    /\ sp500_cache.kind = "frame" /\ cache_timestamp = 0

(***************************************************************************)
(* C27.  For every series of 50 to 99 bars, _calculate_indicators returns  *)
(* ma_200 equal to price and ma_200_trending_up = false, so that rules 1   *)
(* and 3 fail and no verdict computed from such a series has passed =      *)
(* true, whatever the prices and the RS rating (data_fetcher.py 130-155,   *)
(* 203-218, minervini_criteria.py 145-171).                                *)
(***************************************************************************)
ShortSeriesSnapshot ==
    /\ ind_pc = "done" /\ ind_in.cols = "ok" /\ ind_in.hole = 0
    /\ NBars(ind_in) \in 50..99
    /\ ind_out.keys = SnapshotKeys

C27_ShortSeriesNeverPasses ==
    ShortSeriesSnapshot =>
        /\ ind_out.ma_200 = ind_out.price
        /\ ind_out.ma_200_trending_up = "false"
        /\ \A rs \in RsInputs : ~analyze_with_rs_rating(ind_out, rs).passed

(***************************************************************************)
(* C28.  In every verdict of analyze_with_rs_rating the fields agree:      *)
(* passed = true implies fail_reasons is empty and score = max_score = 7,  *)
(* and passed = false implies fail_reasons is non-empty and score < 7      *)
(* (minervini_criteria.py 65-73, 134-143, 265-300).                        *)
(***************************************************************************)
C28_VerdictFieldsAgree ==
    crit_pc = "done" =>
        IF crit_out.passed
        THEN /\ crit_out.fail_reasons = <<>>
             /\ crit_out.score = 7 /\ crit_out.max_score = 7
        ELSE /\ crit_out.fail_reasons # <<>>
             /\ crit_out.score < 7

(***************************************************************************)
(* C29.  _convert_to_rs_scale is monotone non-decreasing: for all relative *)
(* performances a <= b the rating of a is <= the rating of b, also across  *)
(* the breakpoints -5, 5, 20 and 50 (rs_calculator.py 211-253).            *)
(***************************************************************************)
\* a <= b on floats; false when either is nan
LessOrEqual(a, b) ==
    /\ a.t # "nan" /\ b.t # "nan"
    /\ \/ a.t = "ninf" \/ b.t = "pinf"
       \/ a.t = "fin" /\ b.t = "fin" /\ a.n * b.d <= b.n * a.d

C29_RatingIsMonotone ==
    (fn_pc = "done" /\ fn_arg.fn = "convert2" /\ LessOrEqual(fn_arg.rp, fn_arg.rp2)) =>
        fn_out.rating <= fn_out.rating2

\* half a point below the breakpoint 20 and at it: 78 and 80
C29_Witness ==
    /\ fn_pc = "done" /\ fn_arg.fn = "convert2"
    /\ fn_arg.rp = Fin(39, 2) /\ fn_arg.rp2 = Fin(20, 1)
    /\ fn_out.rating = 78 /\ fn_out.rating2 = 80

(***************************************************************************)
(* C30.  For a list of distinct symbols, process_stocks_parallel returns   *)
(* exactly one record per input symbol, none missing and none twice,       *)
(* under every interleaving of the worker threads; the records are in      *)
(* completion order, which need not be the input order (app.py 188-285).   *)
(***************************************************************************)
RecordsOf(symbol) == {k \in 1..Len(results) : results[k].symbol = symbol}

C30_OneRecordPerSymbol ==
    /\ \A i \in 1..Len(symbols) : Cardinality(RecordsOf(symbols[i])) <= 1
    /\ \A k \in 1..Len(results) : \E i \in 1..Len(symbols) : results[k].symbol = symbols[i]
    /\ batch_pc = "returned" =>
          /\ Len(results) = Len(symbols)
          /\ \A i \in 1..Len(symbols) : Cardinality(RecordsOf(symbols[i])) = 1

\* two symbols returned, the second one's record first
C30_Witness ==
    /\ batch_pc = "returned" /\ Len(symbols) = 2
    /\ results[1].symbol = symbols[2] /\ results[2].symbol = symbols[1]

====
